---- MODULE Spec2Model ----
(***************************************************************************)
(* Verification model of winner367/wynex.                                  *)
(*                                                                         *)
(* Part 1: AdaptiveRiskManager (src/adaptive_risk_management.py) and its   *)
(* caller StrategyEngine.execute_strategy (src/strategy_engine.py).        *)
(*                                                                         *)
(* Units.  Python floats are modelled by exact integers:                   *)
(*   - money (balances, stakes, profit_loss) in cents;                     *)
(*   - risk_tolerance and market_volatility in tenths (5 is 0.5);          *)
(*   - probability in twentieths (10 is 0.5, 5 is 0.25);                   *)
(*   - risk percentages in millionths (20000 is 0.02 = 2%);                *)
(*   - streak factors and the probability adjustment in tenths.            *)
(* On these grids every intermediate product of get_optimal_stake is an    *)
(* exact integer, so the only place where the float computation is not     *)
(* determined by the exact value is round(stake, 2) on a value that lies   *)
(* exactly half-way between two cents: there the binary representation     *)
(* decides, and the model takes the direction as an input (tie).           *)
(***************************************************************************)
EXTENDS Integers, Sequences, FiniteSets, TLC

VARIABLES
    initial_balance,   \* AdaptiveRiskManager.initial_balance (cents)
    current_balance,   \* AdaptiveRiskManager.current_balance (cents)
    risk_tolerance,    \* AdaptiveRiskManager.risk_tolerance (tenths)
    trades,            \* AdaptiveRiskManager.trades: the trade log
    win_streak,        \* AdaptiveRiskManager.win_streak
    loss_streak,       \* AdaptiveRiskManager.loss_streak
    daily_results,     \* AdaptiveRiskManager.daily_results: date -> totals
    today,             \* the date datetime.now() currently falls on
    ret,               \* what the last query returned, if nothing changed since
    call,              \* a call of a pure computation: its name and arguments
    result,            \* what that call returned or raised, once it has run
    risk_engine,       \* ai_bot_trading: the SmartRiskEngine of main
    memory,            \* ai_bot_trading: LearningMemorySystem.memory of main
    bot,               \* ai_bot_trading: the position and the locals of main
    api,               \* broker_api: the fields of the DerivAPI object
    threads,           \* broker_api: the call stack of every thread
    net,               \* broker_api: the WebSocket connections and the server
    current_strategy,  \* strategy_engine: StrategyEngine.current_strategy
    users,             \* database: the rows of the users table, by email
    session_state      \* auth_api: st.session_state of every browser session

managerVars == <<initial_balance, current_balance, risk_tolerance, trades,
                 win_streak, loss_streak, daily_results, today, ret>>

calcVars == <<call, result>>

botVars == <<risk_engine, memory, bot>>

apiVars == <<api, threads, net>>

appVars == <<current_strategy, users, session_state>>

vars == <<managerVars, calcVars, botVars, apiVars, appVars>>

----------------------------------------------------------------------------
(* Bounds of the model *)

\* longest trade log explored
MaxTrades == 5
\* last day the clock reaches
LastDay == 2

----------------------------------------------------------------------------
(* Python builtins used by the manager *)

Max(a, b) == IF a >= b THEN a ELSE b
Min(a, b) == IF a <= b THEN a ELSE b

----------------------------------------------------------------------------
(* Program constants (millionths) *)

base_risk_percent == 20000
max_risk_percent == 50000
min_risk_percent == 5000

\* defaults of AdaptiveRiskManager.__init__
DefaultInitialBalance == 100000
DefaultRiskTolerance == 5

\* defaults of get_optimal_stake: market_volatility=0.5, probability=0.5
DefaultVolatility == 5
DefaultProbability == 10

----------------------------------------------------------------------------
(* No pure computation has been called *)

NoCall == [fn |-> "none"]

NoResult == [fn |-> "none"]

\* no computation is called and the bot does not run
CalcIdle == call = NoCall /\ result = NoResult

BotIdle ==
    /\ risk_engine = [consecutive_losses |-> 0, cooldown |-> 0,
                      total_profit |-> 0]
    /\ memory = <<>>
    /\ bot = [pc |-> "idle"]

\* no DerivAPI object exists
ApiIdle == api = <<>> /\ threads = <<>> /\ net = <<>>

\* the StrategyEngine is as constructed (strategy_engine.py line 86), the
\* users table is empty and no browser session exists
AppIdle ==
    /\ current_strategy = "multi_timeframe"
    /\ users = <<>>
    /\ session_state = <<>>

----------------------------------------------------------------------------
(* __init__ *)

\* self.risk_tolerance = max(0.1, min(1.0, risk_tolerance))
init_risk_tolerance(rt) == Max(1, Min(10, rt))

\* self.current_balance = initial_balance
init_current_balance(ib) == ib

NoReason == [text |-> "None", n |-> 0]
NoRet == [op |-> "none", stop |-> FALSE, reason |-> NoReason,
          stake |-> 0, volatility |-> 0, probability |-> 0]

EmptyDaily == [d \in {} |-> 0]

Construct(ib, rt) ==
    /\ initial_balance = ib
    /\ current_balance = init_current_balance(ib)
    /\ risk_tolerance = init_risk_tolerance(rt)
    /\ trades = <<>>
    /\ win_streak = 0
    /\ loss_streak = 0
    /\ daily_results = EmptyDaily
    /\ ret = NoRet

----------------------------------------------------------------------------
(* update_balance *)

\* self.current_balance = max(0, new_balance)
clamp_balance(new_balance) == Max(0, new_balance)

update_balance(new_balance) ==
    /\ current_balance' = clamp_balance(new_balance)
    /\ UNCHANGED <<initial_balance, risk_tolerance, trades, win_streak,
                   loss_streak, daily_results>>

UpdateBalance(new_balance) ==
    /\ update_balance(new_balance)
    /\ ret' = NoRet
    /\ UNCHANGED today

----------------------------------------------------------------------------
(* record_trade *)

\* trade_result['timestamp'].strftime('%Y-%m-%d'): a timestamp is
\* <<day, hour>> and the format keeps the day only
strftime_date(timestamp) == timestamp[1]

\* a log that inserts the new trade at the front
append_trade_front(log, trade_result) == <<trade_result>> \o log

\* self.trades.append(trade_result)
append_trade(log, trade_result) == Append(log, trade_result)

\* a streak update that forgets to reset the other streak
next_win_streak_kept(ws, win) == IF win THEN ws + 1 ELSE ws
next_loss_streak_kept(ls, win) == IF win THEN ls ELSE ls + 1

\* the streak update of record_trade
next_win_streak(ws, win) == IF win THEN ws + 1 ELSE 0
next_loss_streak(ls, win) == IF win THEN 0 ELSE ls + 1

NewDaily == [trades |-> 0, wins |-> 0, losses |-> 0, profit_loss |-> 0]

\* a variant that starts the day's totals afresh with every trade
next_daily_results_afresh(dr, trade_result) ==
    LET trade_date == strftime_date(trade_result.timestamp)
        updated == [trades |-> 1,
                    wins |-> IF trade_result.win THEN 1 ELSE 0,
                    losses |-> IF trade_result.win THEN 0 ELSE 1,
                    profit_loss |-> trade_result.profit_loss]
    IN  [d \in DOMAIN dr \cup {trade_date} |->
            IF d = trade_date THEN updated ELSE dr[d]]

\* the daily_results update of record_trade
next_daily_results(dr, trade_result) ==
    LET trade_date == strftime_date(trade_result.timestamp)
        daily == IF trade_date \in DOMAIN dr THEN dr[trade_date] ELSE NewDaily
        updated == [trades |-> daily.trades + 1,
                    wins |-> IF trade_result.win THEN daily.wins + 1
                             ELSE daily.wins,
                    losses |-> IF trade_result.win THEN daily.losses
                               ELSE daily.losses + 1,
                    profit_loss |-> daily.profit_loss + trade_result.profit_loss]
    IN  [d \in DOMAIN dr \cup {trade_date} |->
            IF d = trade_date THEN updated ELSE dr[d]]

\* a variant that settles the trade's profit or loss on the balance
RecordTradeSettled(trade_result) ==
    /\ trades' = append_trade(trades, trade_result)
    /\ win_streak' = next_win_streak(win_streak, trade_result.win)
    /\ loss_streak' = next_loss_streak(loss_streak, trade_result.win)
    /\ daily_results' = next_daily_results(daily_results, trade_result)
    /\ current_balance' =
            clamp_balance(current_balance + trade_result.profit_loss)
    /\ ret' = NoRet
    /\ UNCHANGED <<initial_balance, risk_tolerance, today>>

RecordTrade(trade_result) ==
    /\ trades' = append_trade(trades, trade_result)
    /\ win_streak' = next_win_streak(win_streak, trade_result.win)
    /\ loss_streak' = next_loss_streak(loss_streak, trade_result.win)
    /\ daily_results' = next_daily_results(daily_results, trade_result)
    /\ ret' = NoRet
    /\ UNCHANGED <<initial_balance, current_balance, risk_tolerance, today>>

----------------------------------------------------------------------------
(* get_optimal_stake *)

\* a volatility factor that takes off the whole volatility, not half of it
volatility_factor_whole(market_volatility) == 20 - 2 * market_volatility

\* 1.0 - (market_volatility * 0.5), in twentieths
volatility_factor(market_volatility) == 20 - market_volatility

\* (probability - 0.5) * 2, in tenths
probability_factor(probability) == probability - 10

\* 1.0 + max(-0.5, min(1.0, probability_factor)), in tenths
risk_adjustment(probability) ==
    10 + Max(-5, Min(10, probability_factor(probability)))

\* a streak adjustment that has no effect
streak_factor_ignored(ws, ls) == 10

\* the win/loss streak adjustment, in tenths (10 when no branch is taken)
streak_factor(ws, ls) ==
    IF ws > 2 THEN Min(15, 10 + ws)
    ELSE IF ls > 1 THEN Max(5, 10 - 2 * ls)
    ELSE 10

\* risk_pct before the limits, in millionths; every division is exact
raw_risk_pct(rt, ws, ls, market_volatility, probability) ==
    LET by_tolerance == (base_risk_percent * rt) \div 10
        by_volatility ==
            (by_tolerance * volatility_factor(market_volatility)) \div 20
        by_probability ==
            (by_volatility * risk_adjustment(probability)) \div 10
    IN  (by_probability * streak_factor(ws, ls)) \div 10

\* limits that enforce the minimum only
limit_risk_pct_uncapped(risk_pct) == Max(min_risk_percent, risk_pct)

\* max(self.min_risk_percent, min(self.max_risk_percent, risk_pct))
limit_risk_pct(risk_pct) ==
    Max(min_risk_percent, Min(max_risk_percent, risk_pct))

\* balance * risk_pct for balance >= 0: whole cents and the remaining
\* millionths of a cent (the product is split so that it stays in range)
stake_cents(balance, risk_pct) ==
    LET hi == (balance \div 1000) * risk_pct
        lo == (balance % 1000) * risk_pct
        rest == (hi % 1000) * 1000 + lo
    IN  [whole |-> (hi \div 1000) + (rest \div 1000000),
         frac |-> rest % 1000000]

\* round(stake, 2): to the nearest cent; exactly half-way the float's
\* binary representation decides, tie = 1 is upwards
round_cents(exact, tie) ==
    IF 2 * exact.frac < 1000000 THEN exact.whole
    ELSE IF 2 * exact.frac > 1000000 THEN exact.whole + 1
    ELSE exact.whole + tie

\* round(self.current_balance * risk_pct, 2)
rounded_stake(balance, risk_pct, tie) ==
    IF balance >= 0 THEN round_cents(stake_cents(balance, risk_pct), tie)
    ELSE 0 - round_cents(stake_cents(0 - balance, risk_pct), tie)

\* return max(1.0, stake)
floor_stake(stake) == Max(100, stake)

\* the directions round(stake, 2) can take for this call: both when the
\* exact stake is half-way between two cents
round_directions(balance, rt, ws, ls, market_volatility, probability) ==
    LET pct == limit_risk_pct(
                   raw_risk_pct(rt, ws, ls, market_volatility, probability))
        exact == stake_cents(IF balance >= 0 THEN balance ELSE 0 - balance, pct)
    IN  IF 2 * exact.frac = 1000000 THEN {0, 1} ELSE {0}

get_optimal_stake(balance, rt, ws, ls, market_volatility, probability, tie) ==
    floor_stake(rounded_stake(balance,
        limit_risk_pct(raw_risk_pct(rt, ws, ls, market_volatility, probability)),
        tie))

GetOptimalStake(market_volatility, probability, tie) ==
    /\ tie \in round_directions(current_balance, risk_tolerance, win_streak,
                                 loss_streak, market_volatility, probability)
    /\ ret' = [op |-> "get_optimal_stake", stop |-> FALSE, reason |-> NoReason,
               stake |-> get_optimal_stake(current_balance, risk_tolerance,
                             win_streak, loss_streak,
                             market_volatility, probability, tie),
               volatility |-> market_volatility, probability |-> probability]
    /\ UNCHANGED <<initial_balance, current_balance, risk_tolerance, trades,
                   win_streak, loss_streak, daily_results, today>>

----------------------------------------------------------------------------
(* should_stop_trading *)

\* a drawdown rule whose boundary is not strict
severe_drawdown_inclusive(cb, ib) == 4 * cb <= 3 * ib

\* self.current_balance < self.initial_balance * 0.75
severe_drawdown(cb, ib) == 4 * cb < 3 * ib

\* self.loss_streak >= 5
excessive_losses(ls) == ls >= 5

\* a daily limit that already stops at exactly -10%
daily_loss_exceeded_inclusive(dr, date, ib) ==
    /\ date \in DOMAIN dr
    /\ 10 * dr[date].profit_loss <= 0 - ib

\* today in self.daily_results and daily_loss < -self.initial_balance * 0.1
daily_loss_exceeded(dr, date, ib) ==
    /\ date \in DOMAIN dr
    /\ 10 * dr[date].profit_loss < 0 - ib

should_stop_trading(cb, ib, ls, dr, date) ==
    IF severe_drawdown(cb, ib)
    THEN [stop |-> TRUE, reason |-> [text |-> "Severe drawdown detected", n |-> 0]]
    ELSE IF excessive_losses(ls)
    THEN [stop |-> TRUE,
          reason |-> [text |-> "Excessive consecutive losses", n |-> ls]]
    ELSE IF daily_loss_exceeded(dr, date, ib)
    THEN [stop |-> TRUE, reason |-> [text |-> "Daily loss limit exceeded", n |-> 0]]
    ELSE [stop |-> FALSE, reason |-> NoReason]

ShouldStopTrading ==
    LET r == should_stop_trading(current_balance, initial_balance, loss_streak,
                                 daily_results, today)
    IN  /\ ret' = [op |-> "should_stop_trading", stop |-> r.stop,
                   reason |-> r.reason, stake |-> 0,
                   volatility |-> 0, probability |-> 0]
        /\ UNCHANGED <<initial_balance, current_balance, risk_tolerance, trades,
                       win_streak, loss_streak, daily_results, today>>

----------------------------------------------------------------------------
(* StrategyEngine.execute_strategy: updates the risk manager with the     *)
(* account balance, then calls the active strategy, which reads the price *)
(* data and returns a signal without touching the risk manager.           *)

ExecuteStrategy(account_balance) ==
    /\ update_balance(account_balance)
    /\ ret' = NoRet
    /\ UNCHANGED today

----------------------------------------------------------------------------
(* The clock: datetime.now() passes midnight *)

Midnight ==
    /\ today < LastDay
    /\ today' = today + 1
    /\ ret' = NoRet
    /\ UNCHANGED <<initial_balance, current_balance, risk_tolerance, trades,
                   win_streak, loss_streak, daily_results>>

----------------------------------------------------------------------------
(* The manager under its stop rules: inputs *)

\* constructor arguments: the default 1000.00, and a negative balance
InitialBalances == {DefaultInitialBalance, -10000}

\* update_balance arguments: a negative balance, and the two sides of 75%
NewBalances == {-500, 74999, 75000}

\* account balances passed to execute_strategy
AccountBalances == {-500, 100000}

\* recorded trades: a win, a small loss, a loss of exactly 10% of the default
\* initial balance, and a loss on the next day
TradeResults ==
    { [timestamp |-> <<1, 9>>,  profit_loss |-> 5000,   win |-> TRUE],
      [timestamp |-> <<1, 14>>, profit_loss |-> -1,     win |-> FALSE],
      [timestamp |-> <<1, 9>>,  profit_loss |-> -10000, win |-> FALSE],
      [timestamp |-> <<2, 9>>,  profit_loss |-> -1,     win |-> FALSE] }

\* nothing but the manager runs
ManagerAlone == CalcIdle /\ BotIdle /\ ApiIdle /\ AppIdle

\* a step of the manager touches nothing else
ManagerOnly == UNCHANGED <<calcVars, botVars, apiVars, appVars>>

Init ==
    /\ \E ib \in InitialBalances : Construct(ib, DefaultRiskTolerance)
    /\ today = 1
    /\ ManagerAlone

Next ==
    \/ \E nb \in NewBalances : UpdateBalance(nb) /\ ManagerOnly
    \/ \E ab \in AccountBalances : ExecuteStrategy(ab) /\ ManagerOnly
    \/ \E t \in TradeResults :
          Len(trades) < MaxTrades /\ RecordTrade(t) /\ ManagerOnly
    \/ \E tie \in {0, 1} :
          /\ GetOptimalStake(DefaultVolatility, DefaultProbability, tie)
          /\ ManagerOnly
    \/ ShouldStopTrading /\ ManagerOnly
    \/ Midnight /\ ManagerOnly

Spec == Init /\ [][Next]_vars

----------------------------------------------------------------------------
(* The stake sizer: inputs *)

\* longest run of trades recorded before sizing a stake
MaxStreak == 5

\* constructor arguments, in and out of the documented range [0.1, 1.0]
RiskTolerances == {-5, 1, 5, 10, 15}

\* balances: below 20.00, 20.10 (5% of it is 1.005), and 210.00 (0.95% of
\* it is 1.995)
StakeBalances == {1000, 2010, 21000}

\* market_volatility arguments, in and out of [0.1, 1.0]
Volatilities == {0, 1, 5, 10, 30}

\* probability arguments, in and out of [0.1, 1.0]
Probabilities == {-4, 2, 10, 20, 24}

\* a winning and a losing trade
StakeTrades ==
    { [timestamp |-> <<1, 9>>, profit_loss |-> 800,  win |-> TRUE],
      [timestamp |-> <<1, 9>>, profit_loss |-> -1000, win |-> FALSE] }

InitStake ==
    /\ \E ib \in InitialBalances, rt \in RiskTolerances : Construct(ib, rt)
    /\ today = 1
    /\ ManagerAlone

NextStake ==
    \/ \E nb \in StakeBalances : UpdateBalance(nb) /\ ManagerOnly
    \/ \E t \in StakeTrades :
          Len(trades) < MaxStreak /\ RecordTrade(t) /\ ManagerOnly
    \/ \E v \in Volatilities, p \in Probabilities, tie \in {0, 1} :
          GetOptimalStake(v, p, tie) /\ ManagerOnly

SpecStake == InitStake /\ [][NextStake]_vars

----------------------------------------------------------------------------
(* Properties of the manager's streaks, balance, stop rules and trade log *)

\* the trades of the log recorded for a date
LoggedOn(date) ==
    {i \in 1..Len(trades) : strftime_date(trades[i].timestamp) = date}

\* the sum of profit_loss over the log entries with the given indexes
RECURSIVE LoggedProfitLoss(_)
LoggedProfitLoss(S) ==
    IF S = {} THEN 0
    ELSE LET i == CHOOSE j \in S : TRUE
         IN  trades[i].profit_loss + LoggedProfitLoss(S \ {i})

\* the number of entries at the end of the log with the given outcome
RECURSIVE TrailingOutcomes(_, _)
TrailingOutcomes(log, win) ==
    IF log = <<>> \/ log[Len(log)].win # win THEN 0
    ELSE 1 + TrailingOutcomes(SubSeq(log, 1, Len(log) - 1), win)

\* the day's logged trades lose more than 10% of the initial balance
DailyLossBreach ==
    /\ LoggedOn(today) # {}
    /\ 10 * LoggedProfitLoss(LoggedOn(today)) < 0 - initial_balance

StopAnswered == ret.op = "should_stop_trading"

\* C1: once a trade is recorded, exactly one of win_streak and loss_streak
\* is non-zero: win_streak > 0 if and only if loss_streak = 0.
C1_StreaksExclusive ==
    Len(trades) > 0 =>
        /\ win_streak >= 0 /\ loss_streak >= 0
        /\ (win_streak > 0) <=> (loss_streak = 0)
        /\ (loss_streak > 0) <=> (win_streak = 0)

\* a loss after wins, interleaved with a balance update
C1_Witness ==
    /\ Len(trades) >= 3
    /\ trades[1].win /\ ~trades[Len(trades)].win
    /\ loss_streak > 0 /\ win_streak = 0
    /\ current_balance # initial_balance

\* C2: the balance held by the manager is never negative, whatever the
\* constructor, update_balance, record_trade and execute_strategy were given.
C2_BalanceNeverNegative == current_balance >= 0

\* C5: should_stop_trading answers true whenever the balance is below 75% of
\* the initial balance, and answers (False, None) at exactly 75% when
\* loss_streak < 5 and the day's loss is within the limit.
C5_DrawdownBoundary ==
    StopAnswered =>
        /\ 4 * current_balance < 3 * initial_balance => ret.stop
        /\ ( /\ 4 * current_balance = 3 * initial_balance
             /\ loss_streak < 5
             /\ ~DailyLossBreach )
           => (~ret.stop /\ ret.reason = NoReason)

\* the answer at exactly 75% of the initial balance, with trades recorded
C5_Witness ==
    /\ StopAnswered
    /\ 4 * current_balance = 3 * initial_balance
    /\ Len(trades) > 0
    /\ ~ret.stop

\* C6: should_stop_trading answers true, with a reason, if and only if the
\* balance is below 75% of the initial balance, or loss_streak >= 5, or the
\* trades logged for the current day sum to less than -10% of the initial
\* balance; otherwise it answers (False, None).
C6_StopRule ==
    StopAnswered =>
        /\ ret.stop <=> \/ 4 * current_balance < 3 * initial_balance
                        \/ loss_streak >= 5
                        \/ DailyLossBreach
        /\ ret.stop => ret.reason # NoReason
        /\ ~ret.stop => ret.reason = NoReason

\* four consecutive losses and a day at exactly -10% do not stop
C6_Witness ==
    /\ StopAnswered
    /\ ~ret.stop
    /\ loss_streak = 4
    /\ LoggedOn(today) # {}
    /\ 10 * LoggedProfitLoss(LoggedOn(today)) = 0 - initial_balance

\* C7: loss_streak is the number of losses logged since the most recent win
\* and win_streak the number of wins logged since the most recent loss; a
\* log of N losses gives loss_streak = N and win_streak = 0.
C7_StreakCounts ==
    /\ loss_streak = TrailingOutcomes(trades, FALSE)
    /\ win_streak = TrailingOutcomes(trades, TRUE)
    /\ (\A i \in 1..Len(trades) : ~trades[i].win)
          => (loss_streak = Len(trades) /\ win_streak = 0)

\* two losses after an intervening win that followed a loss
C7_Witness ==
    /\ Len(trades) >= 4
    /\ ~trades[1].win
    /\ \E i \in 2..Len(trades) - 2 :
          /\ trades[i].win
          /\ \A j \in i + 1..Len(trades) : ~trades[j].win
    /\ loss_streak >= 2
    /\ loss_streak < Len(trades)

\* C10: the trade log is append-only and ordered: a step of the manager
\* leaves it as it is or adds exactly one trade at its end, and a step that
\* records a trade (the daily totals change) is of the second kind.
C10_LogAppendOnly ==
    [][ /\ \/ trades' = trades
           \/ /\ Len(trades') = Len(trades) + 1
              /\ SubSeq(trades', 1, Len(trades)) = trades
        /\ daily_results' # daily_results =>
              /\ Len(trades') = Len(trades) + 1
              /\ trades' = Append(trades, trades'[Len(trades')]) ]_vars

\* a log of several different trades, after a balance update and a query
C10_Witness ==
    /\ Len(trades) >= 3
    /\ trades[1] # trades[2]
    /\ trades[2] # trades[3]
    /\ current_balance # initial_balance
    /\ StopAnswered

\* C24: a step that records a trade leaves current_balance, initial_balance
\* and risk_tolerance as they are; a step that changes current_balance
\* changes nothing else of the manager; so the drawdown answer of
\* should_stop_trading follows the balance last set and not the profit or
\* loss of the trades.
C24_FrameOfRecordAndUpdate ==
    [][ /\ trades' # trades =>
              /\ current_balance' = current_balance
              /\ initial_balance' = initial_balance
              /\ risk_tolerance' = risk_tolerance
        /\ current_balance' # current_balance =>
              /\ initial_balance' = initial_balance
              /\ risk_tolerance' = risk_tolerance
              /\ trades' = trades
              /\ win_streak' = win_streak
              /\ loss_streak' = loss_streak
              /\ daily_results' = daily_results
        /\ ret'.op = "should_stop_trading" =>
              (ret'.reason.text = "Severe drawdown detected"
                  <=> 4 * current_balance' < 3 * initial_balance') ]_vars

\* C24 happens: three losses of 10% of the initial balance each are logged,
\* the balance is still the initial one, and the answer is not the drawdown
C24_Witness ==
    /\ Len(trades) >= 3
    /\ \A i \in 1..3 : 10 * trades[i].profit_loss = 0 - initial_balance
    /\ initial_balance > 0
    /\ current_balance = initial_balance
    /\ StopAnswered
    /\ ret.reason.text # "Severe drawdown detected"

\* the sum of the daily trade counts over the given dates
RECURSIVE DailyTrades(_)
DailyTrades(dates) ==
    IF dates = {} THEN 0
    ELSE LET d == CHOOSE e \in dates : TRUE
         IN  daily_results[d].trades + DailyTrades(dates \ {d})

\* C25: the daily totals agree with the trade log: for every date, trades =
\* wins + losses is the number of that date's logged trades and
\* profit_loss is the sum of their profit_loss; the counts of all dates add
\* up to the length of the log; every logged trade's date has an entry.
C25_DailyTotalsMatchLog ==
    /\ \A d \in DOMAIN daily_results :
          /\ daily_results[d].trades =
                daily_results[d].wins + daily_results[d].losses
          /\ daily_results[d].trades = Cardinality(LoggedOn(d))
          /\ daily_results[d].wins =
                Cardinality({i \in LoggedOn(d) : trades[i].win})
          /\ daily_results[d].profit_loss = LoggedProfitLoss(LoggedOn(d))
    /\ DailyTrades(DOMAIN daily_results) = Len(trades)
    /\ \A i \in 1..Len(trades) :
          strftime_date(trades[i].timestamp) \in DOMAIN daily_results

\* C25 happens: two dates have totals, one of them of a win and a loss
C25_Witness ==
    /\ Cardinality(DOMAIN daily_results) = 2
    /\ \E d \in DOMAIN daily_results :
          /\ daily_results[d].wins > 0
          /\ daily_results[d].losses > 0
    /\ Len(trades) >= 3

----------------------------------------------------------------------------
(* Properties of the stake sizer *)

StakeAnswered == ret.op = "get_optimal_stake"

\* the documented range [0.1, 1.0] of market_volatility and of probability
VolatilityInRange(v) == 1 <= v /\ v <= 10
ProbabilityInRange(p) == 2 <= p /\ p <= 20
ClampVolatility(v) == IF v < 1 THEN 1 ELSE IF v > 10 THEN 10 ELSE v
ClampProbability(p) == IF p < 2 THEN 2 ELSE IF p > 20 THEN 20 ELSE p

\* The reference computation of the stake, from its written description.
\* The percentage in millionths:
\* 0.02 * rt * (1 - 0.5 v) * (1 + clamp(-0.5, 1.0, (p - 0.5) * 2)) * streak
ReferenceEdge(p) ==
    IF p - 10 < -5 THEN 5 ELSE IF p - 10 > 10 THEN 20 ELSE 10 + (p - 10)

ReferenceStreak(ws, ls) ==
    IF ws > 2 THEN (IF 10 + ws > 15 THEN 15 ELSE 10 + ws)
    ELSE IF ls > 1 THEN (IF 10 - 2 * ls < 5 THEN 5 ELSE 10 - 2 * ls)
    ELSE 10

ReferencePct(rt, ws, ls, v, p) ==
    LET pct == rt * (20 - v) * ReferenceEdge(p) * ReferenceStreak(ws, ls)
    IN  IF pct < 5000 THEN 5000 ELSE IF pct > 50000 THEN 50000 ELSE pct

\* balance * pct in millionths of a cent, as <<cents, millionths>>, for
\* balance >= 0
ReferenceProduct(balance, pct) ==
    LET hi == balance * (pct \div 1000)
        lo == balance * (pct % 1000)
        rest == (hi % 1000) * 1000 + lo
    IN  <<(hi \div 1000) + (rest \div 1000000), rest % 1000000>>

\* the stakes the reference allows: the product floored at 1.00 and rounded
\* to the cent, either way when it is exactly half-way
ReferenceStakes(balance, rt, ws, ls, v, p) ==
    IF balance <= 0 THEN {100}
    ELSE LET x == ReferenceProduct(balance, ReferencePct(rt, ws, ls, v, p))
         IN  IF x[1] < 100 THEN {100}
             ELSE IF 2 * x[2] < 1000000 THEN {x[1]}
             ELSE IF 2 * x[2] > 1000000 THEN {x[1] + 1}
             ELSE {x[1], x[1] + 1}

\* the reference stakes before rounding differ by more than one cent
ReferenceGap(balance, lowPct, highPct) ==
    /\ balance > 0
    /\ highPct > lowPct
    /\ LET d == ReferenceProduct(balance, highPct - lowPct)
       IN  d[1] > 1 \/ (d[1] = 1 /\ d[2] > 0)

\* the stakes the sizer can return for the arguments of the last call, had
\* the streaks been ws and ls
StakesWith(ws, ls) ==
    { get_optimal_stake(current_balance, risk_tolerance, ws, ls,
                        ret.volatility, ret.probability, t) :
        t \in round_directions(current_balance, risk_tolerance, ws, ls,
                               ret.volatility, ret.probability) }

PctWith(ws, ls) ==
    ReferencePct(risk_tolerance, ws, ls, ret.volatility, ret.probability)

\* C3 as specified: with volatility and probability in [0.1, 1.0], the stake
\* lies in [1.0, 0.05 * balance] (stated here for a manager whose balances
\* are not negative, where it already fails).
C3_StakeWithinFivePercent ==
    (StakeAnswered /\ VolatilityInRange(ret.volatility)
                   /\ ProbabilityInRange(ret.probability)
                   /\ initial_balance >= 0 /\ current_balance >= 0) =>
        /\ ret.stake >= 100
        /\ 20 * ret.stake <= current_balance

\* C3 amended: with volatility and probability in [0.1, 1.0], the stake is
\* at least 1.00 and at most the larger of 1.00 and 5% of the balance
\* rounded to the nearest cent.
C3_StakeBounds ==
    (StakeAnswered /\ VolatilityInRange(ret.volatility)
                   /\ ProbabilityInRange(ret.probability)) =>
        /\ ret.stake >= 100
        /\ ret.stake <= Max(100, (current_balance + 10) \div 20)

\* the 5% cap at a balance of 20.10, rounded up to 1.01
C3_Witness ==
    /\ StakeAnswered
    /\ VolatilityInRange(ret.volatility) /\ ProbabilityInRange(ret.probability)
    /\ win_streak >= 5
    /\ current_balance = 2010
    /\ ret.stake = 101

\* C4 as specified: the stake with win_streak > 2 is strictly larger than with
\* win_streak <= 2, and the stake with loss_streak > 1 strictly smaller than
\* with loss_streak <= 1, all else equal (stated here for volatility and
\* probability in [0.1, 1.0] and a balance of at least 20.00, where it
\* already fails).
C4_StreakStrictlyMoves ==
    (StakeAnswered /\ VolatilityInRange(ret.volatility)
                   /\ ProbabilityInRange(ret.probability)
                   /\ initial_balance >= 0 /\ current_balance >= 2000) =>
        /\ win_streak > 2 =>
              \A k \in 0..2 : \A s \in StakesWith(k, 0) : ret.stake > s
        /\ loss_streak > 1 =>
              \A k \in 0..1 : \A s \in StakesWith(0, k) : ret.stake < s

\* C4 amended: the stake with win_streak > 2 is never smaller than with
\* win_streak <= 2 and the stake with loss_streak > 1 never larger than with
\* loss_streak <= 1; it is strictly larger (smaller) whenever the two stakes
\* before rounding differ by more than a cent and the larger of the two
\* returned stakes is above the floor of 1.00.
C4_StreakMoves ==
    StakeAnswered =>
        /\ win_streak > 2 =>
              \A k \in 0..2 :
                 /\ IF PctWith(k, 0) = PctWith(win_streak, 0)
                    THEN ret.stake \in StakesWith(k, 0)
                    ELSE \A s \in StakesWith(k, 0) : ret.stake >= s
                 /\ ( /\ ReferenceGap(current_balance, PctWith(k, 0),
                                      PctWith(win_streak, 0))
                      /\ ret.stake > 100 )
                    => \A s \in StakesWith(k, 0) : ret.stake > s
        /\ loss_streak > 1 =>
              \A k \in 0..1 :
                 /\ IF PctWith(0, k) = PctWith(0, loss_streak)
                    THEN ret.stake \in StakesWith(0, k)
                    ELSE \A s \in StakesWith(0, k) : ret.stake <= s
                 /\ \A s \in StakesWith(0, k) :
                       ( /\ ReferenceGap(current_balance,
                                         PctWith(0, loss_streak), PctWith(0, k))
                         /\ s > 100 )
                       => ret.stake < s

\* a win streak that leaves the stake where it was, at the 0.5% minimum
C4_Witness ==
    /\ StakeAnswered
    /\ win_streak > 2
    /\ current_balance = 100000
    /\ ret.stake = 500
    /\ ret.stake \in StakesWith(0, 0)

\* C8: the stake is the one of the reference computation; balance 1000,
\* risk_tolerance 0.5, volatility 0.5, probability 0.5 and no streak give 7.5.
C8_StakeIsReference ==
    StakeAnswered =>
        /\ ret.stake \in ReferenceStakes(current_balance, risk_tolerance,
                             win_streak, loss_streak,
                             ret.volatility, ret.probability)
        /\ ( /\ current_balance = 100000 /\ risk_tolerance = 5
             /\ ret.volatility = 5 /\ ret.probability = 10
             /\ win_streak = 0 /\ loss_streak = 0 )
           => ret.stake = 750

\* the scenario of the description, on a fresh manager
C8_Witness ==
    /\ StakeAnswered
    /\ trades = <<>>
    /\ current_balance = 100000 /\ risk_tolerance = 5
    /\ ret.volatility = 5 /\ ret.probability = 10
    /\ ret.stake = 750

\* C9: a market_volatility or probability outside [0.1, 1.0] gives the stake
\* of the same call with that argument clamped into [0.1, 1.0].
C9_ArgumentsClamped ==
    StakeAnswered =>
        ret.stake \in
            { get_optimal_stake(current_balance, risk_tolerance, win_streak,
                  loss_streak, ClampVolatility(ret.volatility),
                  ClampProbability(ret.probability), t) : t \in {0, 1} }

----------------------------------------------------------------------------
(***************************************************************************)
(* Part 2: the scoring heuristics of StrategyEngine                        *)
(* (src/strategy_engine.py).                                               *)
(*                                                                         *)
(* Units.  probability and confidence of a signal are in hundredths (65 is *)
(* 0.65), stake_multiplier in tenths (12 is 1.2), the bullish and bearish  *)
(* scores of multi_timeframe_strategy in halves (5 is 2.5).  Prices and    *)
(* indicator values are integers.                                          *)
(*                                                                         *)
(* A strategy reads from its price data the number of bars, the last       *)
(* candles and the latest value of a few indicators.  The indicators are   *)
(* computed over the whole history, which the model does not carry: their  *)
(* latest values are inputs of the call, and so is a value that is not a   *)
(* number (a rolling mean over more bars than the data has, an RSI of a    *)
(* flat series).                                                           *)
(***************************************************************************)

\* float('nan'): the latest value of an indicator that is not defined
NaN == -999999

\* comparisons of floats: every comparison with nan is False
Gt(a, b) == a # NaN /\ b # NaN /\ a > b
Lt(a, b) == a # NaN /\ b # NaN /\ a < b
Ge(a, b) == a # NaN /\ b # NaN /\ a >= b
Le(a, b) == a # NaN /\ b # NaN /\ a <= b

\* abs
Abs(a) == IF a < 0 THEN -a ELSE a

\* the history every strategy requires
MinBars == 30

\* the candles pattern_based_strategy scans
ScannedCandles == 5

\* the result every strategy starts from
NullSignal ==
    [trade_type |-> "None", probability |-> 0, confidence |-> 0,
     stake_multiplier |-> 10]

\* one entry of an if/elif chain over trade_types: the trade type asked for
\* and the probability and confidence the result gets with it
Offer(t, p, c) == [trade_type |-> t, probability |-> p, confidence |-> c]

\* the first of the trade types, in the order of the if/elif chain, that is
\* available; no change of the result when none is
FirstAvailable(signal, trade_types, chain) ==
    LET avail == {k \in 1..Len(chain) : chain[k].trade_type \in trade_types}
    IN  IF avail = {} THEN signal
        ELSE LET k == CHOOSE j \in avail : \A l \in avail : j <= l
             IN  [signal EXCEPT !.trade_type = chain[k].trade_type,
                                !.probability = chain[k].probability,
                                !.confidence = chain[k].confidence]

\* ohlc_data row i (an index of Python, from 0) of the last candles
Candle(ohlc_data, i) ==
    ohlc_data.last[i - (ohlc_data.len - (ScannedCandles + 1)) + 1]

is_hammer(ohlc_data, i) ==
    LET c == Candle(ohlc_data, i)
        body_size == Abs(c.close - c.open)
        lower_shadow == Min(c.open, c.close) - c.low
        upper_shadow == c.high - Max(c.open, c.close)
    IN  /\ body_size # 0
        /\ lower_shadow >= 2 * body_size
        /\ 5 * upper_shadow <= body_size
        /\ c.close > c.open

is_shooting_star(ohlc_data, i) ==
    LET c == Candle(ohlc_data, i)
        body_size == Abs(c.close - c.open)
        lower_shadow == Min(c.open, c.close) - c.low
        upper_shadow == c.high - Max(c.open, c.close)
    IN  /\ body_size # 0
        /\ upper_shadow >= 2 * body_size
        /\ 5 * lower_shadow <= body_size
        /\ c.close < c.open

is_bullish_engulfing(ohlc_data, i) ==
    LET c == Candle(ohlc_data, i)
        b == Candle(ohlc_data, i - 1)
    IN  /\ c.open < b.close
        /\ c.close > b.open
        /\ c.close > c.open
        /\ b.open > b.close

is_bearish_engulfing(ohlc_data, i) ==
    LET c == Candle(ohlc_data, i)
        b == Candle(ohlc_data, i - 1)
    IN  /\ c.open > b.close
        /\ c.close < b.open
        /\ c.close < c.open
        /\ b.open < b.close

\* the rows the loop of pattern_based_strategy visits
scanned_rows(ohlc_data) ==
    {i \in (ohlc_data.len - ScannedCandles)..(ohlc_data.len - 1) : i > 0}

bullish_patterns(ohlc_data) ==
    Cardinality({i \in scanned_rows(ohlc_data) : is_hammer(ohlc_data, i)})
    + Cardinality({i \in scanned_rows(ohlc_data) :
                      is_bullish_engulfing(ohlc_data, i)})

bearish_patterns(ohlc_data) ==
    Cardinality({i \in scanned_rows(ohlc_data) :
                    is_shooting_star(ohlc_data, i)})
    + Cardinality({i \in scanned_rows(ohlc_data) :
                      is_bearish_engulfing(ohlc_data, i)})

\* a variant that adds 0.1 for every pattern
pattern_probability_steep(patterns) == 60 + 10 * patterns

\* 0.6 + (0.05 * patterns)
pattern_probability(patterns) == 60 + 5 * patterns

pattern_based_strategy(ohlc_data, trade_types) ==
    IF ohlc_data.len < MinBars THEN NullSignal
    ELSE
    LET trend_bullish ==
            Gt(Candle(ohlc_data, ohlc_data.len - 1).close, ohlc_data.ema20)
        bull == bullish_patterns(ohlc_data)
        bear == bearish_patterns(ohlc_data)
        signalled ==
            IF bull > 0 /\ trend_bullish
            THEN FirstAvailable(NullSignal, trade_types,
                   << Offer("CALL", pattern_probability(bull), 65),
                      Offer("RISE", pattern_probability(bull), 65) >>)
            ELSE IF bear > 0 /\ ~trend_bullish
            THEN FirstAvailable(NullSignal, trade_types,
                   << Offer("PUT", pattern_probability(bear), 65),
                      Offer("FALL", pattern_probability(bear), 65) >>)
            ELSE NullSignal
        pattern_count == Max(bull, bear)
    IN  IF pattern_count >= 3
        THEN [signalled EXCEPT !.confidence = 80, !.stake_multiplier = 15]
        ELSE IF pattern_count >= 2
        THEN [signalled EXCEPT !.confidence = 70, !.stake_multiplier = 12]
        ELSE [signalled EXCEPT !.stake_multiplier = 10]

trend_following_strategy(ohlc_data, trade_types) ==
    IF ohlc_data.len < MinBars THEN NullSignal
    ELSE
    LET current_price == ohlc_data.close
        current_sma20 == ohlc_data.sma20
        current_ema10 == ohlc_data.ema10
        uptrend == Gt(current_price, current_sma20)
                   /\ Gt(current_ema10, current_sma20)
        downtrend == Lt(current_price, current_sma20)
                     /\ Lt(current_ema10, current_sma20)
        signalled ==
            IF uptrend
            THEN FirstAvailable(NullSignal, trade_types,
                   << Offer("CALL", 65, 70), Offer("RISEFALL", 65, 70),
                      Offer("DIGITEVEN", 55, 60) >>)
            ELSE IF downtrend
            THEN FirstAvailable(NullSignal, trade_types,
                   << Offer("PUT", 65, 70), Offer("FALL", 65, 70),
                      Offer("DIGITODD", 55, 60) >>)
            ELSE NullSignal
    IN  IF signalled.probability > 70
        THEN [signalled EXCEPT !.stake_multiplier = 15]
        ELSE IF signalled.probability > 60
        THEN [signalled EXCEPT !.stake_multiplier = 12]
        ELSE [signalled EXCEPT !.stake_multiplier = 10]

mean_reversion_strategy(ohlc_data, trade_types) ==
    IF ohlc_data.len < MinBars THEN NullSignal
    ELSE
    LET current_rsi == ohlc_data.rsi
        oversold == Le(current_rsi, 30)
        overbought == Ge(current_rsi, 70)
        signalled ==
            IF oversold
            THEN FirstAvailable(NullSignal, trade_types,
                   << Offer("CALL", 70, 65), Offer("RISE", 70, 65),
                      Offer("DIGITEVEN", 55, 60) >>)
            ELSE IF overbought
            THEN FirstAvailable(NullSignal, trade_types,
                   << Offer("PUT", 70, 65), Offer("FALL", 70, 65),
                      Offer("DIGITODD", 55, 60) >>)
            ELSE NullSignal
    IN  IF Le(current_rsi, 20) \/ Ge(current_rsi, 80)
        THEN [signalled EXCEPT !.stake_multiplier = 15,
                               !.confidence = Min(80, signalled.confidence + 10)]
        ELSE IF Le(current_rsi, 25) \/ Ge(current_rsi, 75)
        THEN [signalled EXCEPT !.stake_multiplier = 12]
        ELSE [signalled EXCEPT !.stake_multiplier = 10]

\* current_price > resistance_level * 1.005
resistance_breakout(ohlc_data) ==
    1000 * ohlc_data.close > 1005 * ohlc_data.resistance_level

\* current_price < support_level * 0.995
support_breakout(ohlc_data) ==
    1000 * ohlc_data.close < 995 * ohlc_data.support_level

\* breakout_strength > 0.01, for positive price levels
strong_breakout(ohlc_data) ==
    IF resistance_breakout(ohlc_data)
    THEN 100 * (ohlc_data.close - ohlc_data.resistance_level)
             > ohlc_data.resistance_level
    ELSE 100 * (ohlc_data.support_level - ohlc_data.close)
             > ohlc_data.support_level

breakout_strategy(ohlc_data, trade_types) ==
    IF ohlc_data.len < MinBars THEN NullSignal
    ELSE
    LET uptrend == Gt(ohlc_data.close, ohlc_data.sma50)
        signalled ==
            IF resistance_breakout(ohlc_data) /\ uptrend
            THEN FirstAvailable(NullSignal, trade_types,
                   << Offer("CALL", 70, 75), Offer("RISE", 70, 75) >>)
            ELSE IF support_breakout(ohlc_data) /\ ~uptrend
            THEN FirstAvailable(NullSignal, trade_types,
                   << Offer("PUT", 70, 75), Offer("FALL", 70, 75) >>)
            ELSE NullSignal
    IN  IF strong_breakout(ohlc_data)
        THEN [signalled EXCEPT !.stake_multiplier = 15,
                               !.confidence = Min(85, signalled.confidence + 10)]
        ELSE [signalled EXCEPT !.stake_multiplier = 10]

required_timeframes == <<"1m", "5m", "15m">>

\* what one timeframe adds to the bullish score, in halves
bullish_of(tf_data) ==
    (IF Gt(tf_data.close, tf_data.ema20) /\ Gt(tf_data.ema20, tf_data.ema50)
     THEN 2 ELSE 0)
    + (IF Gt(tf_data.rsi, 60) THEN 1 ELSE 0)

\* what one timeframe adds to the bearish score, in halves
bearish_of(tf_data) ==
    (IF Lt(tf_data.close, tf_data.ema20) /\ Lt(tf_data.ema20, tf_data.ema50)
     THEN 2 ELSE 0)
    + (IF ~Gt(tf_data.rsi, 60) /\ Lt(tf_data.rsi, 40) THEN 1 ELSE 0)

bullish_signals(ohlc_data_dict) ==
    bullish_of(ohlc_data_dict["1m"]) + bullish_of(ohlc_data_dict["5m"])
    + bullish_of(ohlc_data_dict["15m"])

bearish_signals(ohlc_data_dict) ==
    bearish_of(ohlc_data_dict["1m"]) + bearish_of(ohlc_data_dict["5m"])
    + bearish_of(ohlc_data_dict["15m"])

\* a variant that only asks for the timeframes to be there
timeframes_present(ohlc_data_dict) ==
    \A k \in 1..Len(required_timeframes) :
        required_timeframes[k] \in DOMAIN ohlc_data_dict

\* the check at the head of multi_timeframe_strategy
enough_timeframes(ohlc_data_dict) ==
    \A k \in 1..Len(required_timeframes) :
        /\ required_timeframes[k] \in DOMAIN ohlc_data_dict
        /\ ohlc_data_dict[required_timeframes[k]].len >= MinBars

multi_timeframe_strategy(ohlc_data_dict, trade_types) ==
    IF ~enough_timeframes(ohlc_data_dict) THEN NullSignal
    ELSE
    LET bull == bullish_signals(ohlc_data_dict)
        bear == bearish_signals(ohlc_data_dict)
        signalled ==
            IF bull >= 5 /\ bull > bear
            THEN FirstAvailable(NullSignal, trade_types,
                   << Offer("CALL", 70, 75), Offer("RISE", 70, 75) >>)
            ELSE IF bear >= 5 /\ bear > bull
            THEN FirstAvailable(NullSignal, trade_types,
                   << Offer("PUT", 70, 75), Offer("FALL", 70, 75) >>)
            ELSE NullSignal
        signal_strength == Max(bull, bear)
    IN  IF signal_strength >= 8
        THEN [signalled EXCEPT !.confidence = 85, !.stake_multiplier = 15]
        ELSE IF signal_strength >= 6
        THEN [signalled EXCEPT !.confidence = 75, !.stake_multiplier = 12]
        ELSE [signalled EXCEPT !.stake_multiplier = 10]

----------------------------------------------------------------------------
(* The strategies: inputs *)

\* candles: a hammer, a shooting star, a falling and a rising candle with no
\* shadows, and a doji.  The hammer engulfs a falling candle before it, the
\* shooting star a rising one.
Candles ==
    { [open |-> 13, high |-> 16, low |-> 7,  close |-> 16],
      [open |-> 16, high |-> 22, low |-> 13, close |-> 13],
      [open |-> 15, high |-> 15, low |-> 14, close |-> 14],
      [open |-> 14, high |-> 15, low |-> 14, close |-> 15],
      [open |-> 15, high |-> 16, low |-> 14, close |-> 15] }

\* numbers of bars: one short of the required history, and just enough
BarCounts == {MinBars - 1, MinBars}

\* trade types offered by the market
TradeTypeLists ==
    { {}, {"CALL", "PUT"}, {"RISE", "FALL"}, {"RISEFALL", "FALL"},
      {"DIGITEVEN", "DIGITODD"} }

\* the last candles: every sequence of the candles above
LastCandles == [1..(ScannedCandles + 1) -> Candles]

\* the last candles all alike, or a falling candle and then candles alike
PlainLastCandles ==
    { [k \in 1..(ScannedCandles + 1) |-> c] : c \in Candles }
    \cup { [k \in 1..(ScannedCandles + 1) |->
               IF k = 1 THEN [open |-> 15, high |-> 15, low |-> 14,
                              close |-> 14]
               ELSE c] : c \in Candles }

\* every sequence of candles under a market that offers CALL and PUT, with
\* the average below and above the closes; the plain sequences also on a
\* short history and under the other markets
PatternCalls ==
    { [fn |-> "pattern_based",
       ohlc_data |-> [len |-> MinBars, last |-> l, ema20 |-> e],
       trade_types |-> {"CALL", "PUT"}] :
         l \in LastCandles, e \in {10, 20} }
    \cup
    { [fn |-> "pattern_based",
       ohlc_data |-> [len |-> n, last |-> l, ema20 |-> e],
       trade_types |-> tt] :
         n \in BarCounts, l \in PlainLastCandles, e \in {10, 20},
         tt \in TradeTypeLists }

TrendCalls ==
    { [fn |-> "trend_following",
       ohlc_data |-> [len |-> n, close |-> 100, sma20 |-> s, ema10 |-> e],
       trade_types |-> tt] :
         n \in BarCounts, s \in {99, 100, 101}, e \in {98, 102},
         tt \in TradeTypeLists }

MeanReversionCalls ==
    { [fn |-> "mean_reversion",
       ohlc_data |-> [len |-> n, rsi |-> r],
       trade_types |-> tt] :
         n \in BarCounts, r \in {NaN, 0, 20, 25, 30, 50, 70, 75, 80, 100},
         tt \in TradeTypeLists }

\* the highest high and the lowest low of the nine bars before the last,
\* around a last close of 1000: a range below it, by more and by less than
\* 1%, a range that holds it, and a range above it, by less and by more
RecentRanges ==
    { [support_level |-> 970,  resistance_level |-> 985],
      [support_level |-> 970,  resistance_level |-> 992],
      [support_level |-> 970,  resistance_level |-> 1010],
      [support_level |-> 1008, resistance_level |-> 1010],
      [support_level |-> 1020, resistance_level |-> 1030] }

\* the 50-bar mean is not a number on fewer than 50 bars
BreakoutCalls ==
    { [fn |-> "breakout",
       ohlc_data |-> [len |-> n, close |-> 1000,
                      support_level |-> r.support_level,
                      resistance_level |-> r.resistance_level,
                      sma50 |-> m],
       trade_types |-> tt] :
         n \in BarCounts, r \in RecentRanges, m \in {NaN, 990, 1010},
         tt \in TradeTypeLists }

\* one timeframe: enough bars with the averages below or above the last
\* close and a low, middle or high RSI, or too few bars
TimeframeData ==
    { [len |-> MinBars, close |-> 100, ema20 |-> e20, ema50 |-> e50,
       rsi |-> r] : e20 \in {99, 101}, e50 \in {98, 102}, r \in {35, 50, 65} }
    \cup { [len |-> MinBars - 1, close |-> 100, ema20 |-> 99, ema50 |-> 98,
            rsi |-> 65] }

MultiTimeframeCalls ==
    { [fn |-> "multi_timeframe", ohlc_data_dict |-> d, trade_types |-> tt] :
         d \in UNION { [tfs -> TimeframeData] :
                          tfs \in SUBSET {"1m", "5m", "15m"} },
         tt \in TradeTypeLists }

Returned(value) == [fn |-> call.fn, value |-> value]

PatternBasedStrategy ==
    /\ call.fn = "pattern_based" /\ result = NoResult
    /\ result' = Returned(pattern_based_strategy(call.ohlc_data,
                                                 call.trade_types))
    /\ UNCHANGED <<call, managerVars, botVars, apiVars, appVars>>

TrendFollowingStrategy ==
    /\ call.fn = "trend_following" /\ result = NoResult
    /\ result' = Returned(trend_following_strategy(call.ohlc_data,
                                                   call.trade_types))
    /\ UNCHANGED <<call, managerVars, botVars, apiVars, appVars>>

MeanReversionStrategy ==
    /\ call.fn = "mean_reversion" /\ result = NoResult
    /\ result' = Returned(mean_reversion_strategy(call.ohlc_data,
                                                  call.trade_types))
    /\ UNCHANGED <<call, managerVars, botVars, apiVars, appVars>>

BreakoutStrategy ==
    /\ call.fn = "breakout" /\ result = NoResult
    /\ result' = Returned(breakout_strategy(call.ohlc_data, call.trade_types))
    /\ UNCHANGED <<call, managerVars, botVars, apiVars, appVars>>

MultiTimeframeStrategy ==
    /\ call.fn = "multi_timeframe" /\ result = NoResult
    /\ result' = Returned(multi_timeframe_strategy(call.ohlc_data_dict,
                                                   call.trade_types))
    /\ UNCHANGED <<call, managerVars, botVars, apiVars, appVars>>

\* the engine's own risk manager, AdaptiveRiskManager(), which no strategy
\* touches
ManagerAtRest ==
    /\ Construct(DefaultInitialBalance, DefaultRiskTolerance)
    /\ today = 1

InitSignal ==
    /\ ManagerAtRest /\ BotIdle /\ ApiIdle /\ AppIdle
    /\ call \in PatternCalls \cup TrendCalls \cup MeanReversionCalls
                \cup BreakoutCalls \cup MultiTimeframeCalls
    /\ result = NoResult

NextSignal ==
    \/ PatternBasedStrategy
    \/ TrendFollowingStrategy
    \/ MeanReversionStrategy
    \/ BreakoutStrategy
    \/ MultiTimeframeStrategy

SpecSignal == InitSignal /\ [][NextSignal]_vars

----------------------------------------------------------------------------
(* Properties of the strategies *)

SingleFrameStrategies ==
    {"pattern_based", "trend_following", "mean_reversion", "breakout"}

StrategyNames == SingleFrameStrategies \cup {"multi_timeframe"}

\* a strategy has returned
SignalReturned == result.fn \in StrategyNames

\* one of the three timeframes is missing or has fewer than 30 bars
TimeframeLacking ==
    \E tf \in {"1m", "5m", "15m"} :
        \/ tf \notin DOMAIN call.ohlc_data_dict
        \/ call.ohlc_data_dict[tf].len < 30

\* C11: with fewer than 30 bars pattern_based, trend_following,
\* mean_reversion and breakout return the null signal (trade_type None,
\* probability 0.0, confidence 0.0, stake_multiplier 1.0), and so does
\* multi_timeframe_strategy when one of '1m', '5m', '15m' is missing or has
\* fewer than 30 bars; the call returns, it does not raise.
C11_NullOnShortHistory ==
    /\ (result.fn \in SingleFrameStrategies /\ call.ohlc_data.len < 30)
          => result.value = [trade_type |-> "None", probability |-> 0,
                             confidence |-> 0, stake_multiplier |-> 10]
    /\ (result.fn = "multi_timeframe" /\ TimeframeLacking)
          => result.value = [trade_type |-> "None", probability |-> 0,
                             confidence |-> 0, stake_multiplier |-> 10]

\* C11 happens: multi_timeframe_strategy has returned on data whose '5m'
\* timeframe is there but one bar short, the other two being long enough
C11_Witness ==
    /\ result.fn = "multi_timeframe"
    /\ DOMAIN call.ohlc_data_dict = {"1m", "5m", "15m"}
    /\ call.ohlc_data_dict["5m"].len = 29
    /\ call.ohlc_data_dict["1m"].len = 30
    /\ call.ohlc_data_dict["15m"].len = 30
    /\ call.trade_types = {"CALL", "PUT"}

\* the bullish and the bearish score of the call, in halves, counted
\* independently of the strategy: 2 for close > ema20 > ema50 (or the
\* reverse), 1 for an RSI above 60 (or below 40)
ScoreOf(up) ==
    LET d == call.ohlc_data_dict
        one(tf) ==
            IF up
            THEN (IF d[tf].close > d[tf].ema20 /\ d[tf].ema20 > d[tf].ema50
                  THEN 2 ELSE 0) + (IF d[tf].rsi > 60 THEN 1 ELSE 0)
            ELSE (IF d[tf].close < d[tf].ema20 /\ d[tf].ema20 < d[tf].ema50
                  THEN 2 ELSE 0) + (IF d[tf].rsi < 40 THEN 1 ELSE 0)
    IN  one("1m") + one("5m") + one("15m")

\* C12: multi_timeframe_strategy emits a trade type only when the bullish or
\* the bearish score over '1m', '5m', '15m' is at least 2.5 and exceeds the
\* opposite score, and whenever it emits no trade type the result has
\* probability 0 and confidence 0.
C12_NullWithoutTradeType ==
    result.fn = "multi_timeframe" =>
        /\ result.value.trade_type # "None" =>
              /\ ~TimeframeLacking
              /\ \/ ScoreOf(TRUE) >= 5 /\ ScoreOf(TRUE) > ScoreOf(FALSE)
                 \/ ScoreOf(FALSE) >= 5 /\ ScoreOf(FALSE) > ScoreOf(TRUE)
        /\ result.value.trade_type = "None" =>
              /\ result.value.probability = 0
              /\ result.value.confidence = 0

\* C13: every signal returned by any of the five strategies has probability
\* in [0, 1] and confidence in [0, 1]; the pattern-based probability is
\* 0.6 + 0.05 * (the bullish, or bearish, patterns of the last 5 candles)
\* and never exceeds 1.
C13_SignalInUnitRange ==
    SignalReturned =>
        /\ 0 <= result.value.probability /\ result.value.probability <= 100
        /\ 0 <= result.value.confidence /\ result.value.confidence <= 100
        /\ (result.fn = "pattern_based"
            /\ result.value.trade_type \in {"CALL", "RISE"})
              => result.value.probability
                    = 60 + 5 * bullish_patterns(call.ohlc_data)
        /\ (result.fn = "pattern_based"
            /\ result.value.trade_type \in {"PUT", "FALL"})
              => result.value.probability
                    = 60 + 5 * bearish_patterns(call.ohlc_data)

\* C13 happens: the last five candles are hammers or engulfing candles six
\* times over, and the signal is a CALL of probability 0.9
C13_Witness ==
    /\ result.fn = "pattern_based"
    /\ bullish_patterns(call.ohlc_data) = 6
    /\ result.value.trade_type = "CALL"
    /\ result.value.probability = 90

----------------------------------------------------------------------------
(***************************************************************************)
(* Part 3: computations over a price series:                               *)
(* PatternRecognition.detect_swing_points                                  *)
(* (src/advanced_pattern_recognition.py), fallback_rsi                     *)
(* (src/strategy_engine.py) and MultiTimeframeAnalyzer._calculate_momentum *)
(* (src/multi_timeframe_analyzer.py).                                      *)
(*                                                                         *)
(* A series is a sequence of integer prices; prices[i] of Python, with i   *)
(* from 0, is At(prices, i).  The swing points are returned as sequences   *)
(* of Python indices.  An RSI value is a fraction num / den, or nan.       *)
(***************************************************************************)

\* longest series given to detect_swing_points
MaxSwingLen == 5

\* highest price of such a series, the lowest being 0
MaxSwingPrice == 2

\* widest window given to detect_swing_points
MaxWindow == 2

\* longest series given to the RSI computations
MaxRsiLen == 16

\* steepest slope of such a series
MaxSlope == 2

\* prices[i]
At(prices, i) == prices[i + 1]

\* prices[a:b], for 0 <= a <= b <= len(prices)
Slice(prices, a, b) == [k \in 1..(b - a) |-> prices[a + k]]

\* a variant that lets a swing high equal its neighbours
is_swing_high_weak(prices, window, i) ==
    /\ \A k \in 1..window : At(prices, i) >= Slice(prices, i - window, i)[k]
    /\ \A k \in 1..window :
          At(prices, i) >= Slice(prices, i + 1, i + window + 1)[k]

\* current > np.max(left_window) and current > np.max(right_window)
is_swing_high(prices, window, i) ==
    /\ \A k \in 1..window : At(prices, i) > Slice(prices, i - window, i)[k]
    /\ \A k \in 1..window :
          At(prices, i) > Slice(prices, i + 1, i + window + 1)[k]

\* current < np.min(left_window) and current < np.min(right_window)
is_swing_low(prices, window, i) ==
    /\ \A k \in 1..window : At(prices, i) < Slice(prices, i - window, i)[k]
    /\ \A k \in 1..window :
          At(prices, i) < Slice(prices, i + 1, i + window + 1)[k]

\* the loop of detect_swing_points from index i on: the two lists it appends
\* to, in the order of the appends
RECURSIVE swing_scan(_, _, _)
swing_scan(prices, window, i) ==
    IF i >= Len(prices) - window THEN [highs |-> <<>>, lows |-> <<>>]
    ELSE LET rest == swing_scan(prices, window, i + 1)
         IN  [highs |-> IF is_swing_high(prices, window, i)
                        THEN <<i>> \o rest.highs ELSE rest.highs,
              lows  |-> IF is_swing_low(prices, window, i)
                        THEN <<i>> \o rest.lows ELSE rest.lows]

\* np.max and np.min of an empty window raise ValueError: with window 0 the
\* first pass of the loop does
detect_swing_points(prices, window) ==
    IF Len(prices) < window * 2
    THEN [raised |-> FALSE, highs |-> <<>>, lows |-> <<>>]
    ELSE IF window = 0 /\ Len(prices) > 0
    THEN [raised |-> TRUE, highs |-> <<>>, lows |-> <<>>]
    ELSE [raised |-> FALSE,
          highs |-> swing_scan(prices, window, window).highs,
          lows |-> swing_scan(prices, window, window).lows]

\* the window of RSI, the default timeperiod of fallback_rsi
RsiPeriod == 14

\* the window of _calculate_momentum, and the history it requires
MomentumWindow == 14

\* the RSI _calculate_momentum reports on a short history
NeutralRsi == 50

\* a float that is the fraction num / den, and nan
Fraction(num, den) == [nan |-> FALSE, num |-> num, den |-> den]
NotANumber == [nan |-> TRUE, num |-> 0, den |-> 1]

\* data.diff() at index i >= 1
Diff(prices, i) == At(prices, i) - At(prices, i - 1)

RECURSIVE SeqSum(_)
SeqSum(values) ==
    IF values = <<>> THEN 0 ELSE Head(values) + SeqSum(Tail(values))

\* a variant that takes the size of every move as a gain
gain_abs(d) == Abs(d)

\* delta.clip(lower=0)
gain_clip(d) == Max(d, 0)

\* -delta.clip(upper=0)
loss_clip(d) == -Min(d, 0)

\* delta.mask(delta < 0, 0)
gain_mask(d) == IF d < 0 THEN 0 ELSE d

\* -delta.mask(delta > 0, 0)
loss_mask(d) == -(IF d > 0 THEN 0 ELSE d)

\* the latest value of series.rolling(window).mean() times window, for the
\* series moves of the moves of the prices from index 1 on; the first move,
\* at index 0, is nan, and so is the mean of a window that reaches it
rolling_sum(moves, window) ==
    IF Len(moves) < window THEN NotANumber
    ELSE Fraction(SeqSum(SubSeq(moves, Len(moves) - window + 1, Len(moves))),
                  1)

\* 100 - (100 / (1 + rs)) with rs = avg_gain / avg_loss: a division of a
\* positive number by zero is inf and 100 / inf is 0; zero by zero is nan
rsi_of(avg_gain, avg_loss) ==
    IF avg_gain.nan \/ avg_loss.nan THEN NotANumber
    ELSE IF avg_loss.num = 0
    THEN (IF avg_gain.num = 0 THEN NotANumber ELSE Fraction(100, 1))
    ELSE Fraction(100 * (avg_gain.num + avg_loss.num) - 100 * avg_loss.num,
                  avg_gain.num + avg_loss.num)

\* fallback_rsi(data, timeperiod).values[-1]
fallback_rsi(data, timeperiod) ==
    rsi_of(rolling_sum([i \in 1..(Len(data) - 1) |-> gain_clip(Diff(data, i))],
                       timeperiod),
           rolling_sum([i \in 1..(Len(data) - 1) |-> loss_clip(Diff(data, i))],
                       timeperiod))

\* _calculate_momentum(data)['rsi']
calculate_momentum(data) ==
    IF Len(data) < MomentumWindow THEN Fraction(NeutralRsi, 1)
    ELSE rsi_of(rolling_sum([i \in 1..(Len(data) - 1) |->
                                gain_mask(Diff(data, i))], MomentumWindow),
                rolling_sum([i \in 1..(Len(data) - 1) |->
                                loss_mask(Diff(data, i))], MomentumWindow))

----------------------------------------------------------------------------
(* The series computations: inputs *)

\* every series of at most MaxSwingLen prices in 0..MaxSwingPrice, under
\* every window from 0 to MaxWindow
SwingCalls ==
    { [fn |-> "detect_swing_points", prices |-> ps, window |-> w] :
         ps \in UNION { [1..n -> 0..MaxSwingPrice] : n \in 0..MaxSwingLen },
         w \in 0..MaxWindow }

\* a series of n prices that moves by a per bar for k bars and by b per bar
\* after them
Ramp(n, k, a, b) ==
    [i \in 1..n |->
        100 + a * Min(i - 1, k) + b * Max(0, i - 1 - k)]

\* series around the lengths at which an RSI becomes defined: rising,
\* falling, flat, and turning once
RsiSeries ==
    { Ramp(n, k, a, b) :
         n \in (MomentumWindow - 1)..MaxRsiLen, k \in 0..MaxRsiLen,
         a \in (-MaxSlope)..MaxSlope, b \in (-MaxSlope)..MaxSlope }

RsiCalls ==
    { [fn |-> f, prices |-> ps] :
         f \in {"fallback_rsi", "calculate_momentum"}, ps \in RsiSeries }

DetectSwingPoints ==
    /\ call.fn = "detect_swing_points" /\ result = NoResult
    /\ result' = Returned(detect_swing_points(call.prices, call.window))
    /\ UNCHANGED <<call, managerVars, botVars, apiVars, appVars>>

FallbackRsi ==
    /\ call.fn = "fallback_rsi" /\ result = NoResult
    /\ result' = Returned(fallback_rsi(call.prices, RsiPeriod))
    /\ UNCHANGED <<call, managerVars, botVars, apiVars, appVars>>

CalculateMomentum ==
    /\ call.fn = "calculate_momentum" /\ result = NoResult
    /\ result' = Returned(calculate_momentum(call.prices))
    /\ UNCHANGED <<call, managerVars, botVars, apiVars, appVars>>

InitSeries ==
    /\ ManagerAtRest /\ BotIdle /\ ApiIdle /\ AppIdle
    /\ call \in SwingCalls \cup RsiCalls
    /\ result = NoResult

NextSeries ==
    \/ DetectSwingPoints
    \/ FallbackRsi
    \/ CalculateMomentum

SpecSeries == InitSeries /\ [][NextSeries]_vars

----------------------------------------------------------------------------
(* Properties of the series computations *)

\* prices rise strictly up to index p and fall strictly after it
PeakedAt(prices, p) ==
    /\ \A i \in 0..(p - 1) : At(prices, i) < At(prices, i + 1)
    /\ \A i \in p..(Len(prices) - 2) : At(prices, i) > At(prices, i + 1)

\* index i has w prices before it and w after it, and its price is strictly
\* greater than each of them
AboveNeighbours(prices, w, i) ==
    /\ w <= i /\ i <= Len(prices) - 1 - w
    /\ \A k \in 1..w : /\ At(prices, i) > At(prices, i - k)
                       /\ At(prices, i) > At(prices, i + k)

\* C14: on a sequence strictly increasing up to index p and strictly
\* decreasing after it, with 1 <= w <= p and w <= len-1-p,
\* detect_swing_points returns [p] as the swing highs; and for every window
\* w >= 1 an index is reported as a swing high if and only if its price is
\* strictly greater than each of the w prices before it and each of the w
\* prices after it.
C14_SwingHighs ==
    result.fn = "detect_swing_points" =>
        LET ps == call.prices
            w == call.window
            reported == {result.value.highs[k] :
                            k \in 1..Len(result.value.highs)}
        IN  /\ w >= 1 => ~result.value.raised
            /\ \A p \in 0..(Len(ps) - 1) :
                  (PeakedAt(ps, p) /\ 1 <= w /\ w <= p /\ w <= Len(ps) - 1 - p)
                     => result.value.highs = <<p>>
            /\ w >= 1 =>
                  \A i \in 0..(Len(ps) - 1) :
                      i \in reported <=> AboveNeighbours(ps, w, i)

\* C14 happens: the peak of 0, 1, 2, 1, 0 under window 2
C14_Witness ==
    /\ result.fn = "detect_swing_points"
    /\ call.prices = <<0, 1, 2, 1, 0>>
    /\ call.window = 2
    /\ result.value.highs = <<2>>

Rising(prices) ==
    \A i \in 1..(Len(prices) - 1) : prices[i] < prices[i + 1]

Falling(prices) ==
    \A i \in 1..(Len(prices) - 1) : prices[i] > prices[i + 1]

\* C15: the 14-period RSI of fallback_rsi and of _calculate_momentum is 100
\* at its latest value on a strictly increasing series of at least 15
\* prices and 0 on a strictly decreasing one, and whenever it is defined it
\* lies within [0, 100].
C15_RsiOnMonotone ==
    result.fn \in {"fallback_rsi", "calculate_momentum"} =>
        /\ (Len(call.prices) >= 15 /\ Rising(call.prices))
              => /\ ~result.value.nan
                 /\ result.value.num = 100 * result.value.den
        /\ (Len(call.prices) >= 15 /\ Falling(call.prices))
              => /\ ~result.value.nan
                 /\ result.value.num = 0
        /\ ~result.value.nan
              => /\ result.value.den > 0
                 /\ 0 <= result.value.num
                 /\ result.value.num <= 100 * result.value.den

\* C15 happens: _calculate_momentum has answered 0 on 15 falling prices
C15_Witness ==
    /\ result.fn = "calculate_momentum"
    /\ Len(call.prices) = 15
    /\ Falling(call.prices)
    /\ ~result.value.nan
    /\ result.value.num = 0

----------------------------------------------------------------------------
(***************************************************************************)
(* Part 4: the bot loop, main of src/ai_bot_trading.py, with its           *)
(* SmartRiskEngine and LearningMemorySystem.                               *)
(*                                                                         *)
(* Units.  Stakes and profits are in tenths (15 is 1.5), confidences in    *)
(* hundredths.  The scanner and the signal engine read random ticks: the   *)
(* index they pick and the confidences of the three signals are inputs of  *)
(* every iteration.  memory is the dict in the order of its insertions.    *)
(***************************************************************************)

base_stake == 10
max_loss == 100
max_profit == 200
max_consec_losses == 3

\* the cooldown update sets, in seconds
CooldownSeconds == 60

\* range(30)
Iterations == 30

\* get_stake(conf, last_result)
get_stake(last_result) ==
    IF last_result = "win" THEN (base_stake * 15) \div 10 ELSE base_stake

\* a variant that never looks at the consecutive losses
should_stop_unless_losing(re) ==
    IF re.total_profit <= -max_loss
    THEN [stop |-> TRUE, reason |-> "Max loss reached"]
    ELSE IF re.total_profit >= max_profit
    THEN [stop |-> TRUE, reason |-> "Max profit reached"]
    ELSE IF re.cooldown > 0
    THEN [stop |-> TRUE, reason |-> "Cooldown"]
    ELSE [stop |-> FALSE, reason |-> ""]

should_stop(re) ==
    IF re.total_profit <= -max_loss
    THEN [stop |-> TRUE, reason |-> "Max loss reached"]
    ELSE IF re.total_profit >= max_profit
    THEN [stop |-> TRUE, reason |-> "Max profit reached"]
    ELSE IF re.consecutive_losses >= max_consec_losses
    THEN [stop |-> TRUE, reason |-> "Max consecutive losses reached"]
    ELSE IF re.cooldown > 0
    THEN [stop |-> TRUE, reason |-> "Cooldown"]
    ELSE [stop |-> FALSE, reason |-> ""]

update(re, profit) ==
    LET losses == IF profit < 0 THEN re.consecutive_losses + 1 ELSE 0
    IN  [total_profit |-> re.total_profit + profit,
         consecutive_losses |-> losses,
         cooldown |-> IF losses >= max_consec_losses
                      THEN CooldownSeconds ELSE re.cooldown]

tick_cooldown(re) ==
    IF re.cooldown > 0 THEN [re EXCEPT !.cooldown = re.cooldown - 1] ELSE re

\* LearningMemorySystem.log
log(mem, index, strategy, outcome) ==
    LET at == {k \in 1..Len(mem) :
                  mem[k].index = index /\ mem[k].strategy = strategy}
        known == IF at = {} THEN Append(mem, [index |-> index,
                                              strategy |-> strategy,
                                              wins |-> 0, losses |-> 0])
                 ELSE mem
        k == CHOOSE j \in 1..Len(known) :
                 known[j].index = index /\ known[j].strategy = strategy
    IN  IF outcome = "win"
        THEN [known EXCEPT ![k].wins = known[k].wins + 1]
        ELSE [known EXCEPT ![k].losses = known[k].losses + 1]

\* a variant that falls back on 'Rise/Fall'
best_strategy_rise_fall(mem, index) ==
    LET mine == {k \in 1..Len(mem) :
                    /\ mem[k].index = index
                    /\ mem[k].wins + mem[k].losses # 0}
        better(j, k) ==
            mem[j].wins * (mem[k].wins + mem[k].losses)
               > mem[k].wins * (mem[j].wins + mem[j].losses)
    IN  IF mine = {} THEN "Rise/Fall"
        ELSE mem[CHOOSE k \in mine :
                    \A j \in mine : /\ ~better(j, k)
                                    /\ (j < k => better(k, j))].strategy

\* LearningMemorySystem.best_strategy: the first record of the index with
\* the highest win rate, 'Even/Odd' when the index has none
best_strategy(mem, index) ==
    LET mine == {k \in 1..Len(mem) :
                    /\ mem[k].index = index
                    /\ mem[k].wins + mem[k].losses # 0}
        better(j, k) ==
            mem[j].wins * (mem[k].wins + mem[k].losses)
               > mem[k].wins * (mem[j].wins + mem[j].losses)
    IN  IF mine = {} THEN "Even/Odd"
        ELSE mem[CHOOSE k \in mine :
                    \A j \in mine : /\ ~better(j, k)
                                    /\ (j < k => better(k, j))].strategy

trade_validator(conf, risk_ok) == conf > 20 /\ risk_ok

\* a variant of the end of an iteration that leaves the loop
break_loop(b) == [b EXCEPT !.pc = "done"]

\* the end of an iteration, by continue or by the end of the body; the
\* locals of the iteration are all assigned again before they are read, and
\* the model forgets them here
continue_loop(b) ==
    [b EXCEPT !.pc = "top", !.step = b.step + 1, !.best_index = 0,
              !.strategy = "", !.conf = 0, !.stake = 0, !.stop = FALSE,
              !.reason = "", !.checked = FALSE]

\* lines 165-172: the scanner picks an index, the signal engine rates the
\* three signals, the memory names the strategy, the stake is sized
Scan(best_index, signals) ==
    /\ bot.pc = "top" /\ bot.step < Iterations
    /\ LET strategy == best_strategy(memory, best_index)
       IN  bot' = [bot EXCEPT !.pc = "check", !.checked = FALSE,
                              !.best_index = best_index,
                              !.strategy = strategy,
                              !.conf = signals[strategy],
                              !.stake = get_stake(bot.last_result)]
    /\ UNCHANGED <<risk_engine, memory, managerVars, calcVars, apiVars, appVars>>

\* line 173
ShouldStop ==
    /\ bot.pc = "check"
    /\ LET answer == should_stop(risk_engine)
       IN  bot' = [bot EXCEPT !.pc = IF answer.stop THEN "stopped"
                                     ELSE "validate",
                              !.checked = TRUE,
                              !.stop = answer.stop,
                              !.reason = answer.reason,
                              !.stopped_once = bot.stopped_once \/ answer.stop]
    /\ UNCHANGED <<risk_engine, memory, managerVars, calcVars, apiVars, appVars>>

\* lines 174-178
Halt ==
    /\ bot.pc = "stopped"
    /\ risk_engine' = tick_cooldown(risk_engine)
    /\ bot' = continue_loop(bot)
    /\ UNCHANGED <<memory, managerVars, calcVars, apiVars, appVars>>

\* lines 180-185, execute_trade drawing the outcome
Trade(outcome) ==
    /\ bot.pc = "validate"
    /\ trade_validator(bot.conf, ~bot.stop)
    /\ LET profit == IF outcome = "win" THEN bot.stake ELSE -bot.stake
       IN  risk_engine' = update(risk_engine, profit)
    /\ memory' = log(memory, bot.best_index, bot.strategy, outcome)
    /\ bot' = continue_loop([bot EXCEPT !.last_result = outcome])
    /\ UNCHANGED <<managerVars, calcVars, apiVars, appVars>>

\* lines 186-187
Skip ==
    /\ bot.pc = "validate"
    /\ ~trade_validator(bot.conf, ~bot.stop)
    /\ bot' = continue_loop(bot)
    /\ UNCHANGED <<risk_engine, memory, managerVars, calcVars, apiVars, appVars>>

\* range(30) is exhausted: main returns
Finish ==
    /\ bot.pc = "top" /\ bot.step >= Iterations
    /\ bot' = [bot EXCEPT !.pc = "done"]
    /\ UNCHANGED <<risk_engine, memory, managerVars, calcVars, apiVars, appVars>>

----------------------------------------------------------------------------
(* The bot loop: inputs *)

\* the index the scanner finds best
Indices == {10}

\* confidences of the three signals: Even/Odd at the threshold of the
\* validator and above it
Signals ==
    { [s \in {"Even/Odd", "Matches/Differs", "Rise/Fall"} |->
          IF s = "Even/Odd" THEN c
          ELSE IF s = "Matches/Differs" THEN 70 ELSE 100] : c \in {20, 100} }

\* lines 159-163; checked and stopped_once record what the loop has done:
\* whether should_stop was called in this iteration, and whether it ever
\* returned true
InitBot ==
    /\ ManagerAtRest /\ CalcIdle /\ ApiIdle /\ AppIdle
    /\ risk_engine = [consecutive_losses |-> 0, cooldown |-> 0,
                      total_profit |-> 0]
    /\ memory = <<>>
    /\ bot = [pc |-> "top", step |-> 0, last_result |-> "None",
              best_index |-> 0, strategy |-> "", conf |-> 0, stake |-> 0,
              stop |-> FALSE, reason |-> "", checked |-> FALSE,
              stopped_once |-> FALSE]

NextBot ==
    \/ \E i \in Indices, g \in Signals : Scan(i, g)
    \/ ShouldStop
    \/ Halt
    \/ \E outcome \in {"win", "loss"} : Trade(outcome)
    \/ Skip
    \/ Finish

\* main runs on: nothing keeps an iteration from its next step
SpecBot == InitBot /\ [][NextBot]_vars /\ WF_vars(NextBot)

----------------------------------------------------------------------------
(* Properties of the bot loop *)

\* a step in which a trade is executed: update moves total_profit by the
\* stake, which is not zero, and log changes the memory
TradeExecuted ==
    \/ risk_engine'.total_profit # risk_engine.total_profit
    \/ risk_engine'.consecutive_losses # risk_engine.consecutive_losses
    \/ memory' # memory

\* C16: in every iteration of main the stop check is evaluated before any
\* trade, and no trade is executed (execute_trade, update, log) in an
\* iteration in which should_stop returned true; a true result only ends
\* that iteration, and the loop terminates after 30 iterations.
C16_StopCheckBeforeTrade ==
    /\ [][ /\ TradeExecuted => (bot.checked /\ ~bot.stop)
           /\ bot'.step = bot.step + 1 => bot.checked
           /\ (bot.checked /\ bot.stop)
                 => (/\ ~TradeExecuted
                     /\ bot'.pc = "top"
                     /\ bot'.step = bot.step + 1)
           /\ bot'.pc = "done" => bot'.step = 30 ]_vars
    /\ <>(bot.pc = "done")

\* C16 happens: main has returned after trades and after a stop
C16_Witness ==
    /\ bot.pc = "done"
    /\ bot.step = 30
    /\ bot.stopped_once
    /\ memory # <<>>

\* the first iterations of main with the scanner moving between two
\* indices
MaxScans == 6

ScannedIndices == {10, 25}

NextMemory ==
    \/ \E i \in ScannedIndices, g \in Signals :
            bot.step < MaxScans /\ Scan(i, g)
    \/ ShouldStop
    \/ Halt
    \/ \E outcome \in {"win", "loss"} : Trade(outcome)
    \/ Skip

SpecMemory == InitBot /\ [][NextMemory]_vars

\* C23: the strategy of every iteration of main is 'Even/Odd', and the
\* memory holds records of no other strategy.
C23_AlwaysEvenOdd ==
    /\ bot.pc \in {"check", "validate", "stopped"} =>
            bot.strategy = "Even/Odd"
    /\ \A k \in 1..Len(memory) : memory[k].strategy = "Even/Odd"

\* C23 happens: both indices have a record, one of them of losses only, and
\* the memory has just named the strategy for an index it knows
C23_Witness ==
    /\ bot.pc = "check"
    /\ bot.strategy = "Even/Odd"
    /\ Len(memory) = 2
    /\ \E k \in 1..2 : /\ memory[k].index = bot.best_index
                        /\ memory[k].wins = 0
                        /\ memory[k].losses > 0
    /\ \E k \in 1..2 : memory[k].wins > 0

\* C19: once should_stop has returned true in an iteration, it returns true
\* in every later iteration and no further trade is executed, whatever the
\* cooldown counts down to; and the reason the loop reports is never the
\* cooldown.
C19_StopIsPermanent ==
    [][ /\ bot.stopped_once => ~TradeExecuted
        /\ (bot'.stopped_once /\ bot'.checked) => bot'.stop
        /\ bot'.reason # "Cooldown" ]_vars

\* C19 happens: three losses in a row have stopped the bot, the cooldown has
\* been counted down for ten iterations, and the stop check has just
\* answered again
C19_Witness ==
    /\ bot.pc = "stopped"
    /\ bot.stop
    /\ bot.reason = "Max consecutive losses reached"
    /\ risk_engine.cooldown = 50

\* ======================================================================
\* Part 5: broker_api.DerivAPI, the WebSocket client
\*
\* api is the object, threads the call stack of each thread that runs its
\* methods (the caller, heartbeat_task and message_loop), net the
\* connections made by websocket.create_connection and the server behind
\* them.  A statement of send or connect that reads or writes a field of
\* the object is a step of its own, so that the threads interleave as the
\* interpreter lets them.
\* ======================================================================

\* bounds
RecursionLimit == 4     \* frames a thread stacks before RecursionError
MaxCalls == 2           \* calls the caller thread makes
MaxPings == 1           \* pings the heartbeat thread sends

\* a value a method hands back: None, a bool, a response, an {"error":
\* {"message": text}} or {"success": True} dictionary, or an exception
Value(kind, text, req_id) == [kind |-> kind, text |-> text, req_id |-> req_id]

None == Value("None", "", 0)

True == Value("bool", "True", 0)

False == Value("bool", "False", 0)

Error(message) == Value("error", message, 0)

Raised(exception) == Value("raised", exception, 0)

\* the frame of a call: its position, its locals (req_id, the counter value
\* loaded by +=, or the socket recv blocks on, in tmp), whether its Event is
\* set, and what the method it called handed back
Frame(fn, pc, wait_response, serial) ==
    [fn |-> fn, pc |-> pc, wait_response |-> wait_response,
     serial |-> serial, req_id |-> 0, tmp |-> 0, event |-> FALSE,
     got |-> None]

\* a thread that runs nothing
NotStarted ==
    [stack |-> <<>>, op |-> "", ops |-> 0, sends |-> 0, last |-> None,
     asked |-> 0]

Top(t) == threads[t].stack[Len(threads[t].stack)]

Executing(t, fn, pc) ==
    /\ threads[t].stack # <<>>
    /\ Top(t).fn = fn
    /\ Top(t).pc = pc

\* the thread after its top frame moved to f
Step(t, f) == [threads[t] EXCEPT !.stack[Len(threads[t].stack)] = f]

\* the thread after its top frame, left at position pc, called fn
Push(t, pc, fn, at, wait_response) ==
    LET th == threads[t]
        sends == IF fn = "send" THEN th.sends + 1 ELSE th.sends
    IN  [th EXCEPT !.stack = Append([th.stack EXCEPT ![Len(th.stack)].pc = pc],
                                    Frame(fn, at, wait_response, sends)),
                   !.sends = sends]

\* the thread th after its top frame returned out to the frame below, or to
\* the client when it was the client's call
Return(th, out) ==
    LET n == Len(th.stack)
        rest == SubSeq(th.stack, 1, n - 1)
    IN  IF rest = <<>>
        THEN [th EXCEPT !.stack = <<>>, !.last = out,
                        !.asked = th.stack[n].req_id]
        ELSE [th EXCEPT !.stack = [rest EXCEPT ![n - 1].got = out]]

\* the thread after its top frame, a send, raised: connect's except clause
\* (lines 78-81) catches it and returns False, heartbeat_task's (lines
\* 149-151) breaks out of the loop, and the client receives it otherwise,
\* through disconnect and get_ticks, which catch nothing
Raise(t, exception) ==
    LET th == threads[t]
        n == Len(th.stack)
        rest == SubSeq(th.stack, 1, n - 1)
    IN  IF rest = <<>>
        THEN [caught |-> FALSE, thread |-> Return(th, Raised(exception))]
        ELSE IF rest[n - 1].fn = "connect"
        THEN [caught |-> TRUE,
              thread |-> Return([th EXCEPT !.stack = rest], False)]
        ELSE [caught |-> FALSE,
              thread |-> [th EXCEPT !.stack = <<>>, !.last = Raised(exception)]]

EmptyMap == [req_id \in {} |-> None]

Store(request_map, req_id, entry) ==
    [k \in DOMAIN request_map \cup {req_id} |->
        IF k = req_id THEN entry ELSE request_map[k]]

Delete(request_map, req_id) ==
    [k \in DOMAIN request_map \ {req_id} |-> request_map[k]]

\* the threads that call send
Senders == {"caller", "heartbeat"}

\* the client calls send(request) with wait_response left True
CallSend ==
    /\ threads.caller.stack = <<>>
    /\ threads.caller.ops < MaxCalls
    /\ threads' = [threads EXCEPT !.caller =
            [@ EXCEPT !.stack = <<Frame("send", "check", TRUE,
                                         threads.caller.sends + 1)>>,
                      !.op = "send", !.ops = @ + 1, !.sends = @ + 1,
                      !.last = None, !.asked = 0]]
    /\ UNCHANGED <<api, net, managerVars, calcVars, botVars, appVars>>

\* the client calls connect()
CallConnect ==
    /\ threads.caller.stack = <<>>
    /\ threads.caller.ops < MaxCalls
    /\ threads' = [threads EXCEPT !.caller =
            [@ EXCEPT !.stack = <<Frame("connect", "open", FALSE, 0)>>,
                      !.op = "connect", !.ops = @ + 1,
                      !.last = None, !.asked = 0]]
    /\ UNCHANGED <<api, net, managerVars, calcVars, botVars, appVars>>

\* send, lines 215-217: an object that is not connected connects first,
\* and send gives up when connect returns False
SendCheck(t) ==
    /\ threads[t].stack # <<>>
    /\ Top(t).fn = "send"
    /\ Top(t).pc \in {"check", "connected"}
    /\ IF Top(t).pc = "connected"
       THEN /\ threads' = [threads EXCEPT ![t] =
                    IF Top(t).got = True
                    THEN Step(t, [Top(t) EXCEPT !.pc = "req_id"])
                    ELSE Return(threads[t], Error("Not connected"))]
            /\ api' = api
       ELSE IF api.connected /\ api.ws # 0
       THEN /\ threads' = [threads EXCEPT ![t] =
                    Step(t, [Top(t) EXCEPT !.pc = "req_id"])]
            /\ api' = api
       ELSE IF Len(threads[t].stack) < RecursionLimit
       THEN /\ threads' = [threads EXCEPT ![t] =
                    Push(t, "connected", "connect", "open", FALSE)]
            /\ api' = api
       ELSE LET raised == Raise(t, "RecursionError")
            IN  /\ threads' = [threads EXCEPT ![t] = raised.thread]
                /\ api' = [api EXCEPT !.connected =
                                IF raised.caught THEN FALSE ELSE @]
    /\ UNCHANGED <<net, managerVars, calcVars, botVars, appVars>>

\* send, line 220: req_id = self.request_id_counter
SendTakeId(t) ==
    /\ Executing(t, "send", "req_id")
    /\ threads' = [threads EXCEPT ![t] =
            Step(t, [Top(t) EXCEPT !.req_id = api.request_id_counter,
                                   !.pc = "load"])]
    /\ net' = [net EXCEPT !.issued = @ \cup
            {[by |-> <<t, Top(t).serial>>, req_id |-> api.request_id_counter]}]
    /\ UNCHANGED <<api, managerVars, calcVars, botVars, appVars>>

\* send, line 221: self.request_id_counter += 1 loads the field, adds one
\* and stores the sum, and another thread may run between the two
SendIncrement(t) ==
    /\ threads[t].stack # <<>>
    /\ Top(t).fn = "send"
    /\ Top(t).pc \in {"load", "store"}
    /\ IF Top(t).pc = "load"
       THEN /\ threads' = [threads EXCEPT ![t] =
                    Step(t, [Top(t) EXCEPT !.tmp = api.request_id_counter,
                                           !.pc = "store"])]
            /\ api' = api
       ELSE /\ threads' = [threads EXCEPT ![t] =
                    Step(t, [Top(t) EXCEPT !.pc = "register"])]
            /\ api' = [api EXCEPT !.request_id_counter = Top(t).tmp + 1]
    /\ UNCHANGED <<net, managerVars, calcVars, botVars, appVars>>

\* send, lines 223-231: a request that waits gets an entry with a new Event
SendRegister(t) ==
    /\ Executing(t, "send", "register")
    /\ threads' = [threads EXCEPT ![t] =
            Step(t, [Top(t) EXCEPT !.pc = "transmit"])]
    /\ api' = [api EXCEPT !.request_map =
            IF Top(t).wait_response
            THEN Store(@, Top(t).req_id,
                       [event |-> <<t, Top(t).serial>>, result |-> None])
            ELSE @]
    /\ UNCHANGED <<net, managerVars, calcVars, botVars, appVars>>

\* send, lines 234-240 and 251-252: self.ws.send raises on None and on a
\* closed socket; a request that does not wait returns {"success": True}
SendTransmit(t) ==
    /\ Executing(t, "send", "transmit")
    /\ IF api.ws = 0 \/ api.ws \notin net.open
       THEN /\ api' = [api EXCEPT !.request_map =
                    IF Top(t).wait_response THEN Delete(@, Top(t).req_id)
                    ELSE @]
            /\ threads' = [threads EXCEPT ![t] =
                    Return(threads[t], Error("send failed"))]
            /\ net' = net
       ELSE /\ net' = [net EXCEPT !.wire = @ \cup
                    {[conn |-> api.ws, req_id |-> Top(t).req_id,
                      by |-> <<t, Top(t).serial>>]}]
            /\ threads' = [threads EXCEPT ![t] =
                    IF Top(t).wait_response
                    THEN Step(t, [Top(t) EXCEPT !.pc = "wait"])
                    ELSE Return(threads[t], Value("success", "", 0))]
            /\ api' = api
    /\ UNCHANGED <<managerVars, calcVars, botVars, appVars>>

\* send, lines 243-250: event.wait(timeout) returns True once the Event is
\* set and send reads the result out of request_map; it returns False when
\* the timeout passes first, and send removes the entry
SendWait(t) ==
    /\ Executing(t, "send", "wait")
    /\ \/ /\ Top(t).event
          /\ IF Top(t).req_id \in DOMAIN api.request_map
             THEN /\ threads' = [threads EXCEPT ![t] =
                        Return(threads[t],
                               api.request_map[Top(t).req_id].result)]
                  /\ api' = api
             ELSE LET raised == Raise(t, "KeyError")
                  IN  /\ threads' = [threads EXCEPT ![t] = raised.thread]
                      /\ api' = [api EXCEPT !.connected =
                                    IF raised.caught THEN FALSE ELSE @]
       \/ /\ ~Top(t).event
          /\ threads' = [threads EXCEPT ![t] =
                Return(threads[t], Error("Request timed out"))]
          /\ api' = [api EXCEPT !.request_map = Delete(@, Top(t).req_id)]
    /\ UNCHANGED <<net, managerVars, calcVars, botVars, appVars>>

\* the thread after connect's except clause ran: lines 78-81
ConnectFailed(t) == Return(threads[t], False)

\* connect, lines 53-57: the old socket is closed and a new one is made;
\* create_connection raises when the server refuses
ConnectOpen(t, accepted) ==
    /\ Executing(t, "connect", "open")
    /\ LET open == net.open \ {api.ws}
           ws == net.created + 1
       IN  IF accepted
           THEN /\ net' = [net EXCEPT !.open = open \cup {ws},
                                      !.created = ws]
                /\ api' = [api EXCEPT !.ws = ws]
                /\ threads' = [threads EXCEPT ![t] =
                        Step(t, [Top(t) EXCEPT !.pc = "handshake"])]
           ELSE /\ net' = [net EXCEPT !.open = open, !.refused = TRUE]
                /\ api' = [api EXCEPT !.connected = FALSE]
                /\ threads' = [threads EXCEPT ![t] = ConnectFailed(t)]
    /\ UNCHANGED <<managerVars, calcVars, botVars, appVars>>

\* connect, line 60: auth_response = self.send({"app_id": self.app_id})
ConnectHandshake(t) ==
    /\ Executing(t, "connect", "handshake")
    /\ IF Len(threads[t].stack) < RecursionLimit
       THEN /\ threads' = [threads EXCEPT ![t] =
                    Push(t, "finish", "send", "check", TRUE)]
            /\ api' = api
       ELSE /\ threads' = [threads EXCEPT ![t] = ConnectFailed(t)]
            /\ api' = [api EXCEPT !.connected = FALSE]
    /\ UNCHANGED <<net, managerVars, calcVars, botVars, appVars>>

\* heartbeat_task and message_loop as connect starts them: lines 69-73 and
\* 141-154
Started(fn) == [NotStarted EXCEPT !.stack = <<Frame(fn, "loop", FALSE, 0)>>]

\* connect, lines 62-76: an error response returns False; 'error' in None
\* raises TypeError; any other response makes the session
ConnectFinish(t) ==
    /\ Executing(t, "connect", "finish")
    /\ IF Top(t).got.kind = "error"
       THEN /\ threads' = [threads EXCEPT ![t] = ConnectFailed(t)]
            /\ api' = api
       ELSE IF Top(t).got = None
       THEN /\ threads' = [threads EXCEPT ![t] = ConnectFailed(t)]
            /\ api' = [api EXCEPT !.connected = FALSE]
       ELSE /\ threads' = [threads EXCEPT
                    ![t] = Return(threads[t], True),
                    !.heartbeat = IF t # "heartbeat" /\ @.stack = <<>>
                                  THEN Started("heartbeat_task") ELSE @,
                    !.listener = Started("message_loop")]
            /\ api' = [api EXCEPT !.connected = TRUE, !.running = TRUE]
    /\ UNCHANGED <<net, managerVars, calcVars, botVars, appVars>>

\* heartbeat_task, lines 145-151: a ping that does not wait, then
\* time.sleep(30)
HeartbeatTask ==
    /\ threads.heartbeat.stack # <<>>
    /\ Top("heartbeat").fn = "heartbeat_task"
    /\ IF Top("heartbeat").pc = "sleep"
       THEN threads' = [threads EXCEPT !.heartbeat =
                Step("heartbeat", [Top("heartbeat") EXCEPT !.pc = "loop"])]
       ELSE IF api.connected /\ api.running
       THEN /\ threads.heartbeat.ops < MaxPings
            /\ threads' = [threads EXCEPT !.heartbeat =
                    [Push("heartbeat", "sleep", "send", "check", FALSE)
                        EXCEPT !.ops = @ + 1]]
       ELSE threads' = [threads EXCEPT !.heartbeat =
                [@ EXCEPT !.stack = <<>>]]
    /\ UNCHANGED <<api, net, managerVars, calcVars, botVars, appVars>>

\* message_loop, line 158: the loop goes on while the session is up
MessageLoop ==
    /\ Executing("listener", "message_loop", "loop")
    /\ threads' = [threads EXCEPT !.listener =
            IF api.running /\ api.connected /\ api.ws # 0
            THEN Step("listener", [Top("listener") EXCEPT
                                        !.pc = "recv", !.tmp = api.ws])
            ELSE [@ EXCEPT !.stack = <<>>]]
    /\ UNCHANGED <<api, net, managerVars, calcVars, botVars, appVars>>

\* the threads after handle_response set the Event of a request_map entry:
\* line 190
EventSet(event) ==
    LET t == event[1] IN
    IF /\ threads[t].stack # <<>>
       /\ Top(t).fn = "send"
       /\ Top(t).serial = event[2]
    THEN [threads EXCEPT ![t] = Step(t, [Top(t) EXCEPT !.event = TRUE])]
    ELSE threads

\* message_loop, lines 160-171, with handle_response, lines 184-190: the
\* entry of the response's req_id is popped, given the response and its
\* Event set; recv raises on a closed socket and the loop ends
Receive ==
    /\ Executing("listener", "message_loop", "recv")
    /\ \/ /\ Top("listener").tmp \in net.open
          /\ \E message \in net.inbox :
                /\ message.conn = Top("listener").tmp
                /\ net' = [net EXCEPT !.inbox = @ \ {message}]
                /\ LET handled ==
                        IF message.req_id \in DOMAIN api.request_map
                        THEN EventSet(api.request_map[message.req_id].event)
                        ELSE threads
                   IN  threads' = [handled EXCEPT !.listener.stack =
                            <<[Top("listener") EXCEPT !.pc = "loop"]>>]
                /\ api' = [api EXCEPT !.request_map =
                                Delete(@, message.req_id)]
       \/ /\ Top("listener").tmp \notin net.open
          /\ threads' = [threads EXCEPT !.listener =
                [@ EXCEPT !.stack = <<>>]]
          /\ api' = [api EXCEPT !.connected = FALSE]
          /\ net' = net
    /\ UNCHANGED <<managerVars, calcVars, botVars, appVars>>

\* the server answers a request with a response of the same req_id
Respond ==
    /\ \E request \in net.wire :
            net' = [net EXCEPT !.wire = @ \ {request},
                               !.inbox = IF request.conn \in net.open
                                         THEN @ \cup {request} ELSE @]
    /\ UNCHANGED <<api, threads, managerVars, calcVars, botVars, appVars>>

\* the client calls disconnect()
CallDisconnect ==
    /\ threads.caller.stack = <<>>
    /\ threads.caller.ops < MaxCalls
    /\ threads' = [threads EXCEPT !.caller =
            [@ EXCEPT !.stack = <<Frame("disconnect", "running", FALSE, 0)>>,
                      !.op = "disconnect", !.ops = @ + 1,
                      !.last = None, !.asked = 0]]
    /\ UNCHANGED <<api, net, managerVars, calcVars, botVars, appVars>>

\* disconnect, lines 120-137: running goes first; every subscription of
\* list(self.active_subscriptions.keys()), counted in tmp, is forgotten by
\* a send; then the subscriptions are dropped and the socket closed and
\* set to None; connected goes last
Disconnect ==
    /\ threads.caller.stack # <<>>
    /\ Top("caller").fn = "disconnect"
    /\ IF Top("caller").pc = "running"
       THEN /\ api' = [api EXCEPT !.running = FALSE]
            /\ net' = net
            /\ threads' = [threads EXCEPT !.caller =
                    Step("caller", [Top("caller") EXCEPT !.pc = "forget",
                        !.tmp = Cardinality(api.active_subscriptions)])]
       ELSE IF Top("caller").pc = "forget" /\ Top("caller").tmp > 0
       THEN /\ api' = api
            /\ net' = net
            /\ threads' = [threads EXCEPT !.caller =
                    [Push("caller", "forget", "send", "check", TRUE)
                        EXCEPT !.stack[1].tmp = @ - 1]]
       ELSE IF Top("caller").pc = "forget"
       THEN /\ api' = [api EXCEPT !.active_subscriptions = {}, !.ws = 0]
            /\ net' = [net EXCEPT !.open = @ \ {api.ws}]
            /\ threads' = [threads EXCEPT !.caller =
                    Step("caller", [Top("caller") EXCEPT !.pc = "connected"])]
       ELSE /\ api' = [api EXCEPT !.connected = FALSE]
            /\ net' = net
            /\ threads' = [threads EXCEPT !.caller =
                    Return(threads.caller, None)]
    /\ UNCHANGED <<managerVars, calcVars, botVars, appVars>>

\* the client calls get_ticks(symbol, callback), always with one callback
CallGetTicks ==
    /\ threads.caller.stack = <<>>
    /\ threads.caller.ops < MaxCalls
    /\ threads' = [threads EXCEPT !.caller =
            [@ EXCEPT !.stack = <<Frame("get_ticks", "register", FALSE, 0)>>,
                      !.op = "get_ticks", !.ops = @ + 1,
                      !.last = None, !.asked = 0]]
    /\ net' = [net EXCEPT !.before = api]
    /\ UNCHANGED <<api, managerVars, calcVars, botVars, appVars>>

\* get_ticks, lines 430-447: register_callback appends the callback to the
\* list of 'tick' (callback_registry counts its copies) and the request is
\* sent; on an error response unregister_callback removes one copy and ""
\* is returned; 'error' in None raises TypeError; a response with a
\* subscription records its id and returns it, any other returns ""
GetTicks ==
    /\ threads.caller.stack # <<>>
    /\ Top("caller").fn = "get_ticks"
    /\ LET got == Top("caller").got IN
       IF Top("caller").pc = "register"
       THEN /\ api' = [api EXCEPT !.callback_registry = @ + 1]
            /\ threads' = [threads EXCEPT !.caller =
                    Push("caller", "response", "send", "check", TRUE)]
       ELSE IF got.kind = "error"
       THEN /\ api' = [api EXCEPT !.callback_registry = Max(@ - 1, 0)]
            /\ threads' = [threads EXCEPT !.caller =
                    Return(threads.caller, Value("str", "", 0))]
       ELSE IF got = None
       THEN /\ api' = api
            /\ threads' = [threads EXCEPT !.caller =
                    Return(threads.caller, Raised("TypeError"))]
       ELSE IF got.text = "subscription"
       THEN /\ api' = [api EXCEPT !.active_subscriptions =
                                    @ \cup {got.req_id}]
            /\ threads' = [threads EXCEPT !.caller =
                    Return(threads.caller, Value("str", "id", got.req_id))]
       ELSE /\ api' = api
            /\ threads' = [threads EXCEPT !.caller =
                    Return(threads.caller, Value("str", "", 0))]
    /\ UNCHANGED <<net, managerVars, calcVars, botVars, appVars>>

\* a DerivAPI as __init__ leaves it: lines 23-42
Constructed ==
    [ws |-> 0, connected |-> FALSE, running |-> FALSE,
     request_id_counter |-> 1, request_map |-> EmptyMap,
     callback_registry |-> 0, active_subscriptions |-> {}]

NoConnection ==
    [created |-> 0, open |-> {}, wire |-> {}, inbox |-> {}, issued |-> {},
     refused |-> FALSE, session |-> FALSE, before |-> Constructed]

\* the object either as __init__ leaves it, or in the session that lines
\* 57-73 of connect describe: a socket, connected and running True, the
\* handshake's identifier used, heartbeat_task and message_loop started
InitApi ==
    /\ ManagerAtRest /\ CalcIdle /\ BotIdle /\ AppIdle
    /\ \E session \in BOOLEAN :
        IF session
        THEN /\ api = [Constructed EXCEPT !.ws = 1, !.connected = TRUE,
                            !.running = TRUE, !.request_id_counter = 2]
             /\ threads = [caller |-> NotStarted,
                           heartbeat |-> Started("heartbeat_task"),
                           listener |-> Started("message_loop")]
             /\ net = [NoConnection EXCEPT !.created = 1, !.open = {1},
                            !.session = TRUE]
        ELSE /\ api = Constructed
             /\ threads = [caller |-> NotStarted, heartbeat |-> NotStarted,
                           listener |-> NotStarted]
             /\ net = NoConnection

NextApi ==
    \/ CallSend
    \/ CallConnect
    \/ CallDisconnect
    \/ Disconnect
    \/ CallGetTicks
    \/ GetTicks
    \/ \E t \in Senders : SendCheck(t)
    \/ \E t \in Senders : SendTakeId(t)
    \/ \E t \in Senders : SendIncrement(t)
    \/ \E t \in Senders : SendRegister(t)
    \/ \E t \in Senders : SendTransmit(t)
    \/ \E t \in Senders : SendWait(t)
    \/ \E t \in Senders, accepted \in BOOLEAN : ConnectOpen(t, accepted)
    \/ \E t \in Senders : ConnectHandshake(t)
    \/ \E t \in Senders : ConnectFinish(t)
    \/ HeartbeatTask
    \/ MessageLoop
    \/ Receive
    \/ Respond

SpecApi == InitApi /\ [][NextApi]_vars

\* ----------------------------------------------------------------------
\* Claims about DerivAPI
\* ----------------------------------------------------------------------

\* the client's call of fn has returned
ClientReturned(fn) ==
    /\ threads.caller.op = fn
    /\ threads.caller.stack = <<>>

C18_ConnectEstablishesSession ==
    (~net.session /\ ClientReturned("connect")) =>
        IF net.refused
        THEN threads.caller.last = False /\ ~api.connected
        ELSE /\ threads.caller.last = True
             /\ api.connected
             /\ threads.listener.stack # <<>>

----------------------------------------------------------------------------
(* Part 6: strategy_engine.StrategyEngine, the choice of the strategy.    *)
(* set_strategy changes current_strategy; execute_strategy updates the    *)
(* risk manager's balance and calls the method registered under          *)
(* current_strategy, or multi_timeframe_strategy when none is registered. *)
(* What the called method computes from the price data is Part 2.         *)

\* self.strategies: the registry of __init__, name -> method
strategies ==
    [pattern_based   |-> "pattern_based_strategy",
     trend_following |-> "trend_following_strategy",
     mean_reversion  |-> "mean_reversion_strategy",
     breakout        |-> "breakout_strategy",
     multi_timeframe |-> "multi_timeframe_strategy"]

\* the names callers ask for: the registered ones, and some that are not
RequestedNames ==
    DOMAIN strategies \cup {"martingale", "Breakout", "breakout_strategy", ""}

\* the balances the caller reports
EngineBalances == {-500, 0, 2500, 50000, 250000}

\* set_strategy without the membership test
set_strategy_unchecked(strategy_name) ==
    [current_strategy |-> strategy_name, returned |-> TRUE]

\* set_strategy: the new current_strategy and the value returned
set_strategy(strategy_name) ==
    IF strategy_name \in DOMAIN strategies
    THEN [current_strategy |-> strategy_name, returned |-> TRUE]
    ELSE [current_strategy |-> current_strategy, returned |-> FALSE]

SetStrategy(strategy_name) ==
    /\ current_strategy' = set_strategy(strategy_name).current_strategy
    /\ result' = [fn |-> "set_strategy", strategy_name |-> strategy_name,
                  returned |-> set_strategy(strategy_name).returned]
    /\ UNCHANGED <<call, users, session_state, managerVars, botVars, apiVars>>

\* self.strategies.get(self.current_strategy)
strategy_func == 
    IF current_strategy \in DOMAIN strategies
    THEN strategies[current_strategy]
    ELSE "None"

\* execute_strategy: the balance goes to the risk manager, then the
\* registered method is called, or the fallback when there is none
EngineExecuteStrategy(account_balance) ==
    /\ ExecuteStrategy(account_balance)
    /\ result' = [fn |-> "execute_strategy",
                  account_balance |-> account_balance,
                  called |-> IF strategy_func # "None"
                             THEN strategy_func
                             ELSE "multi_timeframe_strategy",
                  fallback |-> strategy_func = "None"]
    /\ UNCHANGED <<call, botVars, apiVars, appVars>>

InitEngine ==
    /\ ManagerAtRest /\ CalcIdle /\ BotIdle /\ ApiIdle /\ AppIdle

NextEngine ==
    \/ \E name \in RequestedNames : SetStrategy(name)
    \/ \E ab \in EngineBalances : EngineExecuteStrategy(ab)

SpecEngine == InitEngine /\ [][NextEngine]_vars

----------------------------------------------------------------------------
(* Properties of the strategy choice *)

\* what holds in every state of the engine
C26_Always ==
    /\ current_strategy \in DOMAIN strategies
    /\ result.fn = "set_strategy" =>
          /\ result.returned = (result.strategy_name \in DOMAIN strategies)
          /\ result.returned => current_strategy = result.strategy_name
    /\ result.fn = "execute_strategy" =>
          /\ ~result.fallback
          /\ result.called = strategies[current_strategy]
          /\ current_balance = IF result.account_balance > 0
                               THEN result.account_balance ELSE 0

\* what holds of every step of the engine
C26_Step ==
    /\ (result'.fn = "set_strategy" /\ ~result'.returned) =>
          current_strategy' = current_strategy
    /\ result'.fn = "execute_strategy" =>
          current_strategy' = current_strategy

\* C26: current_strategy is always one of the five registered names:
\* set_strategy with a registered name sets it and returns True, with any
\* other name it returns False and leaves current_strategy unchanged; and
\* execute_strategy calls exactly the method of the current strategy, never
\* through the fallback branch, after setting the risk manager's balance to
\* max(0, account_balance).
C26_StrategyAlwaysRegistered == [](C26_Always) /\ [][C26_Step]_vars

\* a strategy other than the initial one was chosen and executed with a
\* negative balance
C26_Witness ==
    /\ result.fn = "execute_strategy"
    /\ current_strategy = "breakout"
    /\ result.account_balance < 0
    /\ current_balance = 0

\* a name that is not registered was refused
C26_WitnessRefused ==
    /\ result.fn = "set_strategy"
    /\ ~result.returned
    /\ current_strategy = "mean_reversion"

----------------------------------------------------------------------------
(* Part 7: auth_api.AuthAPI over database.Database.  users is the users   *)
(* table, one row per email; session_state holds the st.session_state of  *)
(* every browser session, a mapping whose keys may be absent.  Every      *)
(* operation leaves its name, its arguments and its return value in       *)
(* result.  last_login, name and the three JSON columns play no part in   *)
(* authentication and are left out of the rows.                           *)

\* the browser sessions, which share the database
Sessions == {1, 2}

\* the administrator init_db creates
AdminEmail == "williamsamoe2023@gmail.com"

AdminPassword == "12345678"

\* the user an OAuth login of auth_pages names, who has no row
DerivUser == "deriv_user_a1b2c3d4"

Emails == {AdminEmail, "trader@example.com"}

Passwords == {AdminPassword, "secret"}

\* bcrypt.hashpw and bcrypt.checkpw
hashpw(password) == <<"$2b$", password>>

checkpw(password, password_hash) == password_hash = hashpw(password)

\* the row create_user and init_db insert
NewRow(password, role) ==
    [password_hash |-> hashpw(password), role |-> role, is_active |-> TRUE]

\* Database.get_user: the row, or None
get_user(email) == IF email \in DOMAIN users THEN users[email] ELSE None

\* Database.verify_user: the row if the password matches, or None
verify_user(email, password) ==
    IF email \notin DOMAIN users THEN None
    ELSE IF checkpw(password, users[email].password_hash) THEN users[email]
    ELSE None

\* Database.update_user with the fields is_active and role: UPDATE ...
\* WHERE email = ?, which changes nothing when there is no such row
update_user(email, is_active, role) ==
    [e \in DOMAIN users |->
        IF e = email
        THEN [users[e] EXCEPT !.is_active = is_active, !.role = role]
        ELSE users[e]]

\* st.session_state after current_user and is_authenticated are assigned
SignedIn(session, email, flag) ==
    [k \in DOMAIN session \cup {"current_user", "is_authenticated"} |->
        IF k = "current_user" THEN [user |-> email]
        ELSE IF k = "is_authenticated" THEN [flag |-> flag]
        ELSE session[k]]

\* a session variable that holds None
NoUser == [user |-> "None"]

\* the operation, its session, its arguments and what it returned
Outcome(fn, s, email, password, returned) ==
    [fn |-> fn, session |-> s, email |-> email, password |-> password,
     returned |-> returned]

AuthOnly == UNCHANGED <<call, current_strategy, managerVars, botVars, apiVars>>

\* AuthAPI.create_user
CreateUser(s, email, password) ==
    /\ users' = IF email \in DOMAIN users THEN users
                ELSE [e \in DOMAIN users \cup {email} |->
                         IF e = email THEN NewRow(password, "user")
                         ELSE users[e]]
    /\ result' = Outcome("create_user", s, email, password,
                         email \notin DOMAIN users)
    /\ UNCHANGED session_state
    /\ AuthOnly

\* AuthAPI.login
Login(s, email, password) ==
    LET user_data == verify_user(email, password)
        ok == user_data # None /\ user_data.is_active
    IN  /\ session_state' =
              IF ok
              THEN [session_state EXCEPT
                       ![s] = SignedIn(session_state[s], email, TRUE)]
              ELSE session_state
        /\ result' = Outcome("login", s, email, password, ok)
        /\ UNCHANGED users
        /\ AuthOnly

\* AuthAPI.logout
Logout(s) ==
    /\ session_state' =
          [session_state EXCEPT ![s] = SignedIn(session_state[s], "None", FALSE)]
    /\ result' = Outcome("logout", s, "None", "None", FALSE)
    /\ UNCHANGED users
    /\ AuthOnly

\* is_authenticated without the look-up in the database
is_authenticated_unverified(session) ==
    IF \/ "current_user" \notin DOMAIN session
       \/ "is_authenticated" \notin DOMAIN session
    THEN [session |-> session, returned |-> FALSE]
    ELSE [session |-> session,
          returned |-> session["current_user"] # NoUser
                       /\ session["is_authenticated"].flag]

\* AuthAPI.is_authenticated: the session afterwards and the value returned
is_authenticated(session) ==
    IF \/ "current_user" \notin DOMAIN session
       \/ "is_authenticated" \notin DOMAIN session
    THEN [session |-> session, returned |-> FALSE]
    ELSE IF \/ session["current_user"] = NoUser
            \/ ~session["is_authenticated"].flag
    THEN [session |-> session, returned |-> FALSE]
    ELSE LET user_data == get_user(session["current_user"].user)
         IN  IF user_data = None
             THEN [session |-> SignedIn(session, "None", FALSE),
                   returned |-> FALSE]
             ELSE IF ~user_data.is_active
             THEN [session |-> SignedIn(session, "None", FALSE),
                   returned |-> FALSE]
             ELSE [session |-> session, returned |-> TRUE]

\* the user a session names, or None
CurrentUser(session) ==
    IF "current_user" \in DOMAIN session
    THEN session["current_user"].user
    ELSE "None"

IsAuthenticated(s) ==
    /\ session_state' =
          [session_state EXCEPT ![s] = is_authenticated(session_state[s]).session]
    /\ result' = Outcome("is_authenticated", s, CurrentUser(session_state[s]),
                         "None", is_authenticated(session_state[s]).returned)
    /\ UNCHANGED users
    /\ AuthOnly

\* AuthAPI.suspend_user
SuspendUser(s, email) ==
    /\ users' = update_user(email, FALSE, "suspended")
    /\ result' = Outcome("suspend_user", s, email, "None", TRUE)
    /\ UNCHANGED session_state
    /\ AuthOnly

\* AuthAPI.activate_user
ActivateUser(s, email) ==
    /\ users' = update_user(email, TRUE, "user")
    /\ result' = Outcome("activate_user", s, email, "None", TRUE)
    /\ UNCHANGED session_state
    /\ AuthOnly

\* auth_pages and complete_app assign current_user and is_authenticated
\* themselves: to the user of the broker an OAuth callback names, who has
\* no row in the users table, or to an email
SessionSignIn(s, user) ==
    /\ session_state' =
          [session_state EXCEPT ![s] = SignedIn(session_state[s], user, TRUE)]
    /\ result' = Outcome("sign_in", s, user, "None", TRUE)
    /\ UNCHANGED users
    /\ AuthOnly

\* init_db has created the administrator, and AuthAPI() has set
\* current_user to None in every session
InitAuth ==
    /\ users = [e \in {AdminEmail} |-> NewRow(AdminPassword, "admin")]
    /\ session_state = [s \in Sessions |-> [k \in {"current_user"} |-> NoUser]]
    /\ current_strategy = "multi_timeframe"
    /\ ManagerAtRest /\ CalcIdle /\ BotIdle /\ ApiIdle

NextAuth ==
    \/ \E s \in Sessions, e \in Emails, p \in Passwords : CreateUser(s, e, p)
    \/ \E s \in Sessions, e \in Emails, p \in Passwords : Login(s, e, p)
    \/ \E s \in Sessions : Logout(s)
    \/ \E s \in Sessions : IsAuthenticated(s)
    \/ \E s \in Sessions, e \in Emails : SuspendUser(s, e)
    \/ \E s \in Sessions, e \in Emails : ActivateUser(s, e)
    \/ \E s \in Sessions, u \in Emails \cup {DerivUser} : SessionSignIn(s, u)

SpecAuth == InitAuth /\ [][NextAuth]_vars

----------------------------------------------------------------------------
(* Properties of authentication *)

\* the session the last operation ran in
ItsSession == session_state[result.session]

\* the session holds no user and no raised flag
Cleared(session) ==
    /\ "current_user" \in DOMAIN session => session["current_user"] = NoUser
    /\ "is_authenticated" \in DOMAIN session =>
          ~session["is_authenticated"].flag

\* what holds after every operation
C27_Always ==
    /\ (result.fn = "is_authenticated" /\ result.returned) =>
          /\ "current_user" \in DOMAIN ItsSession
          /\ "is_authenticated" \in DOMAIN ItsSession
          /\ ItsSession["current_user"].user = result.email
          /\ ItsSession["is_authenticated"].flag
          /\ result.email \in DOMAIN users
          /\ users[result.email].is_active
    /\ (result.fn = "is_authenticated" /\ ~result.returned) =>
          Cleared(ItsSession)
    /\ (result.fn = "suspend_user" /\ result.email \in DOMAIN users) =>
          ~users[result.email].is_active
    /\ (result.fn = "login" /\ result.returned) =>
          /\ result.email \in DOMAIN users
          /\ users[result.email].is_active
          /\ ItsSession["current_user"].user = result.email

\* what holds of every step: a session of a missing or suspended user is
\* refused and cleared, a suspended user cannot log in, and only
\* activate_user lifts a suspension
C27_Step ==
    /\ \A s \in Sessions :
          (/\ result'.fn = "is_authenticated"
           /\ result'.session = s
           /\ CurrentUser(session_state[s]) # "None"
           /\ \/ CurrentUser(session_state[s]) \notin DOMAIN users
              \/ ~users[CurrentUser(session_state[s])].is_active)
          => /\ ~result'.returned
             /\ session_state'[s]["current_user"] = NoUser
             /\ ~session_state'[s]["is_authenticated"].flag
    /\ \A e \in DOMAIN users :
          /\ (~users[e].is_active /\ result'.fn = "login"
              /\ result'.email = e) => ~result'.returned
          /\ (~users[e].is_active /\ users'[e].is_active) =>
                (result'.fn = "activate_user" /\ result'.email = e)

----------------------------------------------------------------------------
(* Part 8: bot_config_parser.BotConfigParser, the XML form of a           *)
(* configuration.  A text is the sequence of its characters.  A value of  *)
(* a configuration is a string, an integer, a float, a boolean or a list  *)
(* of strings; a float is the decimal number mant * 10^exp its shortest   *)
(* representation shows, with mant not a multiple of 10.  An XML document *)
(* is the element tree generate_bot_xml builds, which ElementTree writes  *)
(* and reads back unchanged when every text is legal XML, or a text that  *)
(* is not well formed.                                                    *)

Value8(type, text, mant, exp, items) ==
    [type |-> type, text |-> text, mant |-> mant, exp |-> exp,
     items |-> items]

StrValue(text) == Value8("str", text, 0, 0, <<>>)

IntValue(n) == Value8("int", <<>>, n, 0, <<>>)

BoolValue(b) == Value8("bool", <<>>, IF b THEN 1 ELSE 0, 0, <<>>)

ListValue(items) == Value8("list", <<>>, 0, 0, items)

\* the float mant * 10^exp, in normal form
RECURSIVE FloatValue(_, _)
FloatValue(mant, exp) ==
    IF mant = 0 THEN Value8("float", <<>>, 0, 0, <<>>)
    ELSE IF mant % 10 = 0 THEN FloatValue(mant \div 10, exp + 1)
    ELSE Value8("float", <<>>, mant, exp, <<>>)

\* a control character, which no XML document may hold
Ctrl == "^A"

Whitespace == {" ", "\t", "\n"}

UpperCase ==
    <<"A", "B", "C", "D", "E", "F", "G", "H", "I", "J", "K", "L", "M",
      "N", "O", "P", "Q", "R", "S", "T", "U", "V", "W", "X", "Y", "Z">>

LowerCase ==
    <<"a", "b", "c", "d", "e", "f", "g", "h", "i", "j", "k", "l", "m",
      "n", "o", "p", "q", "r", "s", "t", "u", "v", "w", "x", "y", "z">>

DigitChars == <<"0", "1", "2", "3", "4", "5", "6", "7", "8", "9">>

\* str.lower
lower(text) ==
    [i \in 1..Len(text) |->
        IF \E k \in 1..26 : UpperCase[k] = text[i]
        THEN LowerCase[CHOOSE k \in 1..26 : UpperCase[k] = text[i]]
        ELSE text[i]]

\* str.strip
RECURSIVE lstrip(_)
lstrip(text) ==
    IF text # <<>> /\ Head(text) \in Whitespace
    THEN lstrip(Tail(text)) ELSE text

RECURSIVE rstrip(_)
rstrip(text) ==
    IF text # <<>> /\ text[Len(text)] \in Whitespace
    THEN rstrip(SubSeq(text, 1, Len(text) - 1)) ELSE text

strip(text) == rstrip(lstrip(text))

IsDigit(c) == \E d \in 1..10 : DigitChars[d] = c

DigitValue(c) == (CHOOSE d \in 1..10 : DigitChars[d] = c) - 1

\* the decimal digits of a natural number
RECURSIVE Digits(_)
Digits(n) ==
    IF n < 10 THEN <<DigitChars[n + 1]>>
    ELSE Append(Digits(n \div 10), DigitChars[(n % 10) + 1])

Zeros(n) == [i \in 1..n |-> "0"]

\* digits, with single underscores between them
IsDigitRun(text) ==
    /\ text # <<>>
    /\ \A i \in 1..Len(text) :
          \/ IsDigit(text[i])
          \/ /\ text[i] = "_"
             /\ 1 < i /\ i < Len(text)
             /\ IsDigit(text[i - 1]) /\ IsDigit(text[i + 1])

RECURSIVE DigitsValue(_)
DigitsValue(text) ==
    IF text = <<>> THEN 0
    ELSE LET front == SubSeq(text, 1, Len(text) - 1)
             last == text[Len(text)]
         IN  IF last = "_" THEN DigitsValue(front)
             ELSE 10 * DigitsValue(front) + DigitValue(last)

DigitCount(text) == Cardinality({i \in 1..Len(text) : IsDigit(text[i])})

Unsigned(text) ==
    IF text # <<>> /\ Head(text) \in {"+", "-"} THEN Tail(text) ELSE text

Negative(text) == text # <<>> /\ Head(text) = "-"

\* int(text) does not raise ValueError
IsIntText(text) == IsDigitRun(Unsigned(text))

\* int(text)
int_of(text) ==
    IF Negative(text) THEN 0 - DigitsValue(Unsigned(text))
    ELSE DigitsValue(Unsigned(text))

\* the place of the first character of cs in text, or 0
IndexOf(text, cs) ==
    IF \E i \in 1..Len(text) : text[i] \in cs
    THEN CHOOSE i \in 1..Len(text) :
            /\ text[i] \in cs
            /\ \A j \in 1..(i - 1) : text[j] \notin cs
    ELSE 0

MantissaText(text) ==
    IF IndexOf(text, {"e", "E"}) = 0 THEN text
    ELSE SubSeq(text, 1, IndexOf(text, {"e", "E"}) - 1)

ExponentText(text) ==
    IF IndexOf(text, {"e", "E"}) = 0 THEN <<"0">>
    ELSE SubSeq(text, IndexOf(text, {"e", "E"}) + 1, Len(text))

IntegerPart(text) ==
    LET m == Unsigned(MantissaText(text))
    IN  IF IndexOf(m, {"."}) = 0 THEN m
        ELSE SubSeq(m, 1, IndexOf(m, {"."}) - 1)

FractionPart(text) ==
    LET m == Unsigned(MantissaText(text))
    IN  IF IndexOf(m, {"."}) = 0 THEN <<>>
        ELSE SubSeq(m, IndexOf(m, {"."}) + 1, Len(m))

\* float(text) does not raise ValueError, for a text that is not inf or nan
IsFloatText(text) ==
    /\ IntegerPart(text) = <<>> \/ IsDigitRun(IntegerPart(text))
    /\ FractionPart(text) = <<>> \/ IsDigitRun(FractionPart(text))
    /\ IntegerPart(text) # <<>> \/ FractionPart(text) # <<>>
    /\ IsIntText(ExponentText(text))

\* the number of zeros a run of digits ends with
RECURSIVE TrailingZeros(_)
TrailingZeros(digits) ==
    IF digits # <<>> /\ digits[Len(digits)] = "0"
    THEN 1 + TrailingZeros(SubSeq(digits, 1, Len(digits) - 1))
    ELSE 0

\* float(text)
float_of(text) ==
    LET digits == SelectSeq(IntegerPart(text) \o FractionPart(text), IsDigit)
        zeros == TrailingZeros(digits)
        mant == DigitsValue(SubSeq(digits, 1, Len(digits) - zeros))
    IN  FloatValue(IF Negative(text) THEN 0 - mant ELSE mant,
                   int_of(ExponentText(text)) - DigitCount(FractionPart(text))
                       + zeros)

\* str(value) of a float: repr, which changes to the exponent form below
\* 1e-04 and from 1e+16 on
float_repr(value) ==
    LET m == IF value.mant < 0 THEN 0 - value.mant ELSE value.mant
        d == Digits(m)
        n == Len(d)
        x == n - 1 + value.exp
        ax == IF x < 0 THEN 0 - x ELSE x
        positional ==
            IF value.exp >= 0
            THEN d \o Zeros(value.exp) \o <<".", "0">>
            ELSE IF n + value.exp > 0
            THEN SubSeq(d, 1, n + value.exp) \o <<".">>
                    \o SubSeq(d, n + value.exp + 1, n)
            ELSE <<"0", ".">> \o Zeros(0 - (n + value.exp)) \o d
        scientific ==
            <<d[1]>>
            \o (IF n > 1 THEN <<".">> \o SubSeq(d, 2, n) ELSE <<>>)
            \o <<"e", IF x < 0 THEN "-" ELSE "+">>
            \o (IF ax < 10 THEN <<"0">> ELSE <<>>) \o Digits(ax)
        body == IF m = 0 THEN <<"0", ".", "0">>
                ELSE IF x < -4 \/ x >= 16 THEN scientific
                ELSE positional
    IN  IF value.mant < 0 THEN <<"-">> \o body ELSE body

\* str(value)
str_of(value) ==
    CASE value.type = "str" -> value.text
      [] value.type = "int" ->
            IF value.mant < 0 THEN <<"-">> \o Digits(0 - value.mant)
            ELSE Digits(value.mant)
      [] value.type = "float" -> float_repr(value)
      [] value.type = "bool" ->
            IF value.mant = 1 THEN <<"T", "r", "u", "e">>
            ELSE <<"F", "a", "l", "s", "e">>

\* parse_bot_xml, lines 248 to 263: the value of a setting from its text
setting_value(text) ==
    LET value == strip(text)
    IN  IF \E i \in 1..Len(value) : value[i] = "."
        THEN IF IsFloatText(value) THEN float_of(value)
             ELSE IF lower(value) = <<"t", "r", "u", "e">> THEN BoolValue(TRUE)
             ELSE IF lower(value) = <<"f", "a", "l", "s", "e">>
             THEN BoolValue(FALSE)
             ELSE StrValue(value)
        ELSE IF IsIntText(value) THEN IntValue(int_of(value))
        ELSE IF lower(value) = <<"t", "r", "u", "e">> THEN BoolValue(TRUE)
        ELSE IF lower(value) = <<"f", "a", "l", "s", "e">> THEN BoolValue(FALSE)
        ELSE StrValue(value)

\* the keys of the default configuration, in its order
KeyOrder ==
    <<"market", "trade_type", "base_stake", "stake_multiplier",
      "probability_threshold", "confidence_threshold", "risk_tolerance",
      "max_consecutive_losses", "cooldown_period", "is_active",
      "daily_loss_limit", "stop_loss", "take_profit", "max_trades_per_day",
      "max_drawdown", "total_capital", "risk_per_trade", "trading_start",
      "trading_end", "trading_days", "analysis_window", "use_trend_filter",
      "use_volatility_filter">>

Keys == {KeyOrder[i] : i \in 1..Len(KeyOrder)}

Monday == <<"M", "o", "n", "d", "a", "y">>

Tuesday == <<"T", "u", "e", "s", "d", "a", "y">>

Wednesday == <<"W", "e", "d", "n", "e", "s", "d", "a", "y">>

Thursday == <<"T", "h", "u", "r", "s", "d", "a", "y">>

Friday == <<"F", "r", "i", "d", "a", "y">>

Sunday == <<"S", "u", "n", "d", "a", "y">>

get_default_config ==
    [key \in Keys |->
        CASE key = "market" -> StrValue(<<"R", "_", "1", "0">>)
          [] key = "trade_type" ->
                StrValue(<<"D", "I", "G", "I", "T", "E", "V", "E", "N">>)
          [] key = "base_stake" -> FloatValue(1, 0)
          [] key = "stake_multiplier" -> FloatValue(12, -1)
          [] key = "probability_threshold" -> FloatValue(65, -2)
          [] key = "confidence_threshold" -> FloatValue(6, -1)
          [] key = "risk_tolerance" -> FloatValue(5, -1)
          [] key = "max_consecutive_losses" -> IntValue(5)
          [] key = "cooldown_period" -> IntValue(60)
          [] key = "is_active" -> BoolValue(FALSE)
          [] key = "daily_loss_limit" -> FloatValue(50, 0)
          [] key = "stop_loss" -> FloatValue(100, 0)
          [] key = "take_profit" -> FloatValue(100, 0)
          [] key = "max_trades_per_day" -> IntValue(20)
          [] key = "max_drawdown" -> IntValue(15)
          [] key = "total_capital" -> FloatValue(1000, 0)
          [] key = "risk_per_trade" -> FloatValue(1, 0)
          [] key = "trading_start" -> StrValue(<<"0", "0", ":", "0", "0">>)
          [] key = "trading_end" -> StrValue(<<"2", "3", ":", "5", "9">>)
          [] key = "trading_days" ->
                ListValue(<<Monday, Tuesday, Wednesday, Thursday, Friday>>)
          [] key = "analysis_window" -> IntValue(50)
          [] key = "use_trend_filter" -> BoolValue(TRUE)
          [] key = "use_volatility_filter" -> BoolValue(TRUE)]

\* key[4:-7] of the keys that start with use_ and end with _filter
filter_name ==
    [use_trend_filter |-> "trend", use_volatility_filter |-> "volatility"]

\* f'use_{tag}_filter'
filter_key(tag) ==
    IF \E key \in DOMAIN filter_name : filter_name[key] = tag
    THEN CHOOSE key \in DOMAIN filter_name : filter_name[key] = tag
    ELSE "use_?_filter"

\* an element tree, or a text that is not well formed
Tree(settings, has_trading_days, trading_days, filters) ==
    [kind |-> "tree", settings |-> settings,
     has_trading_days |-> has_trading_days, trading_days |-> trading_days,
     filters |-> filters]

Malformed == [kind |-> "malformed", settings |-> <<>>,
              has_trading_days |-> FALSE, trading_days |-> <<>>,
              filters |-> <<>>]

IsSettingKey(key) ==
    /\ key \notin {"trading_days", "saved_at", "exported_at", "imported_at"}
    /\ key \notin DOMAIN filter_name

\* minidom.parseString accepts the text
LegalText(text) == \A i \in 1..Len(text) : text[i] # Ctrl

generate_bot_xml(config) ==
    LET setting_keys == SelectSeq(KeyOrder, IsSettingKey)
        filter_keys == SelectSeq(KeyOrder, LAMBDA key : key \in DOMAIN filter_name)
        settings == [i \in 1..Len(setting_keys) |->
                        [tag |-> setting_keys[i],
                         text |-> str_of(config[setting_keys[i]])]]
        days == IF config["trading_days"].type = "list"
                THEN config["trading_days"].items ELSE <<>>
        filters == [i \in 1..Len(filter_keys) |->
                       [tag |-> filter_name[filter_keys[i]],
                        text |-> lower(str_of(config[filter_keys[i]]))]]
    IN  IF /\ \A i \in 1..Len(settings) : LegalText(settings[i].text)
           /\ \A i \in 1..Len(days) : LegalText(days[i])
        THEN Tree(settings, config["trading_days"].type = "list", days, filters)
        ELSE Malformed

\* the last element of elements with the tag, or 0
LastWithTag(elements, tag) ==
    IF \E i \in 1..Len(elements) : elements[i].tag = tag
    THEN CHOOSE i \in 1..Len(elements) :
            /\ elements[i].tag = tag
            /\ \A j \in (i + 1)..Len(elements) : elements[j].tag # tag
    ELSE 0

\* parse_bot_xml followed by validate_config: of every key of the default
\* configuration the value read, or the default
parse_bot_xml(xml) ==
    IF xml.kind = "malformed" THEN get_default_config
    ELSE [key \in Keys |->
            LET filter == CHOOSE i \in 0..Len(xml.filters) :
                             /\ i > 0 => filter_key(xml.filters[i].tag) = key
                             /\ \A j \in (i + 1)..Len(xml.filters) :
                                   filter_key(xml.filters[j].tag) # key
            IN  IF filter > 0
                THEN BoolValue(lower(xml.filters[filter].text)
                              = <<"t", "r", "u", "e">>)
                ELSE IF key = "trading_days" /\ xml.has_trading_days
                THEN ListValue([i \in 1..Len(xml.trading_days) |->
                              strip(xml.trading_days[i])])
                ELSE IF LastWithTag(xml.settings, key) > 0
                THEN setting_value(
                        xml.settings[LastWithTag(xml.settings, key)].text)
                ELSE get_default_config[key]]

----------------------------------------------------------------------------
(* The configurations and the documents the parser is given *)

StringKeys == {"market", "trade_type", "trading_start", "trading_end"}

FloatKeys ==
    {"base_stake", "stake_multiplier", "probability_threshold",
     "confidence_threshold", "risk_tolerance", "daily_loss_limit",
     "stop_loss", "take_profit", "total_capital", "risk_per_trade"}

IntKeys ==
    {"max_consecutive_losses", "cooldown_period", "max_trades_per_day",
     "max_drawdown", "analysis_window"}

BoolKeys == {"is_active", "use_trend_filter", "use_volatility_filter"}

Strings ==
    { <<"R", "_", "5", "0">>, <<"1", "H", "Z", "1", "0", "V">>,
      <<"1", "0">>, <<"1", ".", "5">>, <<"t", "r", "u", "e">>,
      <<" ", "R", "_", "1", "0">>, <<>>, <<"1", "e", "5">>,
      <<"R", ".", "1">>, <<"R", Ctrl>> }

Floats ==
    { FloatValue(2, 0), FloatValue(12, -1), FloatValue(65, -2), FloatValue(0, 0), FloatValue(1, -4),
      FloatValue(1, -5), FloatValue(15, -6), FloatValue(1, 15), FloatValue(1, 16),
      FloatValue(25, 15), FloatValue(-5, -1) }

Ints == {-3, 0, 5, 20, 100}

DayLists == { <<>>, <<Monday>>, <<Sunday, Monday>> }

Configs ==
    {get_default_config}
    \cup { [get_default_config EXCEPT ![key] = StrValue(text)] :
              key \in StringKeys, text \in Strings }
    \cup { [get_default_config EXCEPT ![key] = x] :
              key \in FloatKeys, x \in Floats }
    \cup { [get_default_config EXCEPT ![key] = IntValue(n)] :
              key \in IntKeys, n \in Ints }
    \cup { [get_default_config EXCEPT ![key] = BoolValue(b)] :
              key \in BoolKeys, b \in BOOLEAN }
    \cup { [get_default_config EXCEPT !["trading_days"] = ListValue(days)] :
              days \in DayLists }

\* documents written by hand: not well formed, empty, partial, with a
\* setting given twice, with an unknown filter
Documents ==
    { Malformed,
      Tree(<<>>, FALSE, <<>>, <<>>),
      Tree(<<[tag |-> "market", text |-> <<"R", "_", "5", "0">>]>>,
           FALSE, <<>>, <<>>),
      Tree(<<[tag |-> "cooldown_period", text |-> <<"3", "0">>],
             [tag |-> "cooldown_period", text |-> <<" ", "4", "_", "5">>]>>,
           TRUE, <<>>, <<[tag |-> "momentum", text |-> <<"T", "R", "U", "E">>],
                         [tag |-> "trend", text |-> <<"n", "o">>]>>) }

XmlCalls ==
    { [fn |-> "round_trip", config |-> c, xml_str |-> Malformed] :
         c \in Configs }
    \cup { [fn |-> "parse_bot_xml", config |-> get_default_config,
            xml_str |-> d] : d \in Documents }

GenerateBotXml ==
    /\ call.fn = "round_trip"
    /\ result = NoResult
    /\ result' = [fn |-> "generate_bot_xml",
                  xml |-> generate_bot_xml(call.config)]
    /\ UNCHANGED <<call, managerVars, botVars, apiVars, appVars>>

\* the document just generated is parsed
ParseGenerated ==
    /\ call.fn = "round_trip"
    /\ result.fn = "generate_bot_xml"
    /\ result' = [fn |-> "parse_bot_xml", config |-> parse_bot_xml(result.xml)]
    /\ UNCHANGED <<call, managerVars, botVars, apiVars, appVars>>

ParseBotXml ==
    /\ call.fn = "parse_bot_xml"
    /\ result = NoResult
    /\ result' = [fn |-> "parse_bot_xml",
                  config |-> parse_bot_xml(call.xml_str)]
    /\ UNCHANGED <<call, managerVars, botVars, apiVars, appVars>>

InitXml ==
    /\ ManagerAtRest /\ BotIdle /\ ApiIdle /\ AppIdle
    /\ call \in XmlCalls
    /\ result = NoResult

NextXml == GenerateBotXml \/ ParseGenerated \/ ParseBotXml

SpecXml == InitXml /\ [][NextXml]_vars

----------------------------------------------------------------------------
(* Properties of the XML form *)

\* a round trip has finished
RoundTripDone == call.fn = "round_trip" /\ result.fn = "parse_bot_xml"

\* C28: for every configuration c with exactly the keys of the default
\* configuration and values of the defaults' types,
\* parse_bot_xml(generate_bot_xml(c)) equals c; and for XML that is not
\* well formed parse_bot_xml returns the default configuration.
C28_XmlRoundTrips ==
    /\ RoundTripDone => result.config = call.config
    /\ (/\ call.fn = "parse_bot_xml"
        /\ call.xml_str.kind = "malformed"
        /\ result.fn = "parse_bot_xml") =>
          result.config = get_default_config

\* a text that reads back as itself: legal, without outer whitespace, and
\* neither a number nor a boolean to setting_value
PlainText(text) ==
    /\ LegalText(text)
    /\ strip(text) = text
    /\ setting_value(text) = StrValue(text)

\* a configuration whose strings are plain texts and whose floats are
\* written with a decimal point
Unambiguous(config) ==
    \A key \in Keys :
        /\ config[key].type = "str" => PlainText(config[key].text)
        /\ config[key].type = "float" =>
              /\ IndexOf(float_repr(config[key]), {"."}) > 0
        /\ config[key].type = "list" =>
              \A i \in 1..Len(config[key].items) :
                  /\ LegalText(config[key].items[i])
                  /\ strip(config[key].items[i]) = config[key].items[i]

\* the round trip gives back exactly the unambiguous configurations
RoundTripOfUnambiguous ==
    RoundTripDone =>
        ((result.config = call.config) <=> Unambiguous(call.config))

\* the second half of C28 alone
MalformedGivesDefault ==
    (/\ call.fn = "parse_bot_xml"
     /\ call.xml_str.kind = "malformed"
     /\ result.fn = "parse_bot_xml") =>
        result.config = get_default_config

====
